---- MODULE Spec2Model ----
(***************************************************************************)
(* A model of the ChatGPT control addon: the content script's completion   *)
(* detector (content.js), the background service worker's routing          *)
(* (background.js) and the relay server's correlation store (server code   *)
(* is not part of the sources; it is modelled from the specification).     *)
(***************************************************************************)
EXTENDS Integers, Sequences, FiniteSets, Bags, TLC

(***************************************************************************)
(* Bounds of the model.                                                    *)
(***************************************************************************)
\* Number of DOM changes / mutation notifications the page performs.
MaxDomChanges == 2
\* Number of checks of one detector that may be suspended in the image download.
MaxInFlight == 2

(***************************************************************************)
(* Program constants.                                                      *)
(***************************************************************************)
MAX_TIMEOUT_ATTEMPTS == 60
STABLE_CHECKS_REQUIRED == 3
SEND_BUTTON_ATTEMPTS == 25

\* Request ids that reach the content script.
Ids == {1, 2}

(***************************************************************************)
(* Texts are sequences of characters; Null stands for JavaScript's null.   *)
(***************************************************************************)
Null == <<"null">>
TextEmpty == <<>>
TextA == <<"A">>
TextAB == <<"A", "B">>

RECURSIVE TrimLeft(_)
TrimLeft(t) == IF t # <<>> /\ Head(t) = " " THEN TrimLeft(Tail(t)) ELSE t

RECURSIVE TrimRight(_)
TrimRight(t) ==
    IF t # <<>> /\ t[Len(t)] = " " THEN TrimRight(SubSeq(t, 1, Len(t) - 1)) ELSE t

\* responseText.trim()
Trim(t) == TrimRight(TrimLeft(t))

(***************************************************************************)
(* The page.  count is the number of article[data-turn="assistant"]        *)
(* elements; the other fields describe the last of them: whether it holds  *)
(* a .markdown element, a .loading-shimmer element, a [data-is-last-node]  *)
(* element inside the markdown, a group/imagegen-image container, an <img> *)
(* with a src inside that container, and the markdown's innerText.         *)
(***************************************************************************)
Page(n, md, sh, ln, ct, im, tx) ==
    [count |-> n, markdown |-> md, shimmer |-> sh, lastNode |-> ln,
     container |-> ct, img |-> im, text |-> tx]

EmptyChat == Page(0, FALSE, FALSE, FALSE, FALSE, FALSE, TextEmpty)
OldReply == Page(1, TRUE, FALSE, TRUE, FALSE, FALSE, TextA)

NewPages ==
    { Page(2, FALSE, TRUE, FALSE, FALSE, FALSE, TextEmpty),   \* placeholder
      Page(2, TRUE, TRUE, TRUE, TRUE, TRUE, TextA),           \* placeholder with final marker and image
      Page(2, TRUE, FALSE, FALSE, FALSE, FALSE, TextA),       \* streaming, no marker yet
      Page(2, TRUE, FALSE, TRUE, FALSE, FALSE, TextEmpty),    \* final marker, no text
      Page(2, TRUE, FALSE, TRUE, FALSE, FALSE, TextA),
      Page(2, TRUE, FALSE, TRUE, FALSE, FALSE, TextAB),
      Page(2, FALSE, FALSE, FALSE, TRUE, FALSE, TextEmpty),   \* image container, image not loaded
      Page(2, FALSE, FALSE, FALSE, TRUE, TRUE, TextEmpty),    \* image-only reply
      Page(2, TRUE, FALSE, FALSE, TRUE, TRUE, TextA) }        \* text and image, no marker

Pages == {EmptyChat, OldReply} \cup NewPages

VARIABLES
    call,                   \* content.js: the helper call that is followed on its own, with its arguments and results
    dom,                    \* the page, as the selectors of content.js see it
    domChanges,             \* number of page changes so far
    inbox,                  \* execute_prompt messages delivered to the tab, not yet handled
    exec,                   \* per request: how far the execute_prompt handler has come
    attempts,               \* per request: the send-button poll's counter
    responseObserver,       \* module global: 0 (null) or the detector whose observer it holds
    responseTimeout,        \* module global: the debounce timer handle
    observers,              \* connected MutationObservers, in creation order
    pollInterval,           \* per detector: its setInterval is active
    initialAssistantCount,  \* per detector closure
    timeoutAttempts,        \* per detector closure
    lastResponseText,       \* per detector closure
    stableCheckCount,       \* per detector closure
    inflight,               \* per detector: the bag of checks suspended in await extractGeneratedImage
    callbackLog,            \* per detector: the arguments of every sendResponseCallback call
    extractions,            \* per detector (history): the latest texts its checks extracted
    rtQueue,                \* chrome.runtime.sendMessage calls not yet handled by the background
    websocket,              \* background.js: readyState of the socket the global websocket refers to
    keepAliveInterval,      \* background.js: 0 (null) or the period of the keep-alive interval
    intervals,              \* background.js: number of setInterval timers that have not been cleared
    reconnectTimer,         \* background.js: the delays of the pending setTimeout(connectWebSocket, ...)
    attemptDelays,          \* background.js (history): the reconnect delays since the socket was last open
    console,                \* background.js (history): what console.error and console.warn have logged
    bg,                     \* per request: how far the onmessage handler has come
    tab,                    \* the ChatGPT tab: whether it exists, whether its content script listens
    wsSent,                 \* the messages the server has received from the extension
    gateway,                \* relay server: connection-state of the Connection Gateway
    store,                  \* relay server: the Correlation Store's Pending Handles
    nextId,                 \* relay server: the next fresh request identifier
    request,                \* per caller: state of its request and the identifier it got
    outcomes,               \* per caller: the outcomes delivered to it, with the time waited
    toExt,                  \* instruction messages in flight to the extension
    received,               \* identifiers of the instructions the extension has received
    fromExt,                \* result messages in flight to the server
    replies,                \* number of result messages the extension has sent
    resolveLog,             \* the calls of resolve and what they returned
    accepted,               \* relay server: number of inbound connections accepted so far
    current,                \* relay server: the connection the Gateway uses, 0 for none
    sentVia                 \* relay server (history): the connection each instruction was sent over

fnVars == <<call>>
pageVars == <<dom, domChanges>>
socketVars == <<websocket, keepAliveInterval, intervals, reconnectTimer, attemptDelays>>
bgVars == <<socketVars, console, bg, tab, wsSent>>
linkVars == <<accepted, current, sentVia>>
srvVars == <<gateway, store, nextId, request, outcomes, toExt, received, fromExt,
             replies, resolveLog, linkVars>>
csVars == <<inbox, exec, attempts, responseObserver, responseTimeout, observers,
            pollInterval, initialAssistantCount, timeoutAttempts, lastResponseText,
            stableCheckCount, inflight, callbackLog, extractions, rtQueue>>
vars == <<fnVars, pageVars, csVars, bgVars, srvVars>>

\* A timer handle: the detector whose check it runs, and whether it is still pending.
NoTimer == [owner |-> 0, pending |-> FALSE]

\* JavaScript's undefined, and the values a message field can hold.
Undefined == [kind |-> "undefined"]
TextValue(t) == [kind |-> "text", text |-> t]
ErrorObject(reason) == [kind |-> "object", status |-> "error", reason |-> reason]
NoImage == [kind |-> "null"]
Image == [kind |-> "image"]

(***************************************************************************)
(* The content script's state as one record, so that a handler's           *)
(* statements can be applied one after the other.                          *)
(***************************************************************************)
CS ==
    [inbox |-> inbox, exec |-> exec, attempts |-> attempts,
     responseObserver |-> responseObserver, responseTimeout |-> responseTimeout,
     observers |-> observers, pollInterval |-> pollInterval,
     initialAssistantCount |-> initialAssistantCount,
     timeoutAttempts |-> timeoutAttempts, lastResponseText |-> lastResponseText,
     stableCheckCount |-> stableCheckCount, inflight |-> inflight,
     callbackLog |-> callbackLog, extractions |-> extractions, rtQueue |-> rtQueue]

Commit(s) ==
    /\ inbox' = s.inbox
    /\ exec' = s.exec
    /\ attempts' = s.attempts
    /\ responseObserver' = s.responseObserver
    /\ responseTimeout' = s.responseTimeout
    /\ observers' = s.observers
    /\ pollInterval' = s.pollInterval
    /\ initialAssistantCount' = s.initialAssistantCount
    /\ timeoutAttempts' = s.timeoutAttempts
    /\ lastResponseText' = s.lastResponseText
    /\ stableCheckCount' = s.stableCheckCount
    /\ inflight' = s.inflight
    /\ callbackLog' = s.callbackLog
    /\ extractions' = s.extractions
    /\ rtQueue' = s.rtQueue

\* The history of extractions keeps the latest WindowLen texts.
WindowLen == STABLE_CHECKS_REQUIRED + 1
Slide(w, x) ==
    IF Len(w) < WindowLen THEN Append(w, x) ELSE Append(Tail(w), x)

Without(q, x) == SelectSeq(q, LAMBDA y : y # x)

(***************************************************************************)
(* content.js: the completion detector.                                    *)
(***************************************************************************)

\* chrome.runtime.sendMessage(message)
runtimeSendMessage(s, message) == [s EXCEPT !.rtQueue = Append(@, message)]

\* The callback execute_prompt hands to startObservingResponses: it copies
\* response.response, response.status and response.generatedImage.
sendResponseCallback(s, d, response) ==
    runtimeSendMessage(
        [s EXCEPT !.callbackLog[d] = Append(@, response)],
        [id |-> d, response |-> response.response, status |-> response.status,
         generatedImage |-> response.generatedImage])

SuccessResponse(d, text, generatedImage) ==
    [status |-> TextValue(<<"success">>), id |-> d, response |-> TextValue(text),
     reason |-> Undefined,
     generatedImage |-> IF generatedImage = NoImage THEN Undefined ELSE generatedImage]

\* The timeout object has no id, response or generatedImage field (id 0: none).
TimeoutResponse ==
    [status |-> TextValue(<<"error">>), id |-> 0, response |-> Undefined,
     reason |-> TextValue(<<"Timed out waiting for assistant response.">>),
     generatedImage |-> Undefined]

stopObservingResponses(s) ==
    IF s.responseObserver = 0
    THEN s
    ELSE [s EXCEPT !.observers = Without(@, s.responseObserver),
                   !.pollInterval[s.responseObserver] = FALSE,
                   !.responseObserver = 0,
                   !.responseTimeout = NoTimer]

startObservingResponses(s, d, page) ==
    [s EXCEPT !.initialAssistantCount[d] = page.count,
              !.timeoutAttempts[d] = 0,
              !.lastResponseText[d] = Null,
              !.stableCheckCount[d] = 0,
              !.extractions[d] = <<>>,
              !.responseObserver = d,
              !.observers = Append(@, d),
              !.pollInterval[d] = TRUE]

\* A variant that takes the baseline's last message for a new one.
hasMessage(page, initial) == page.count >= initial /\ page.count > 0

\* assistantMessages.length > initialAssistantCount
hasNewMessage(page, initial) == page.count > initial

\* markdownContent?.querySelector('[data-is-last-node]')
hasLastNode(page) == page.markdown /\ page.lastNode

\* A variant that lets a message with the final marker through.
hasLoadingShimmerUnlessFinal(page) == page.shimmer /\ ~hasLastNode(page)

\* newMessage.querySelector('.loading-shimmer')
hasLoadingShimmer(page) == page.shimmer

\* A variant that takes any markdown content for a finished one.
hasMarkdownOrContainer(page) == page.markdown \/ page.container

\* (markdownContent && lastNode) || hasImageContainer
hasCompletionMarker(page) == hasLastNode(page) \/ page.container

\* A variant that is satisfied one check earlier.
isStableEarly(count) == count >= STABLE_CHECKS_REQUIRED - 1

\* stableCheckCount >= STABLE_CHECKS_REQUIRED
isStable(count) == count >= STABLE_CHECKS_REQUIRED

\* The part of checkForNewAssistantMessage that runs before its await, on the
\* page as it is now.  ret is "false", or "stable" when the check goes on to
\* extractGeneratedImage with the frame (the check's local variables).
checkForNewAssistantMessage(s, d, page) ==
    LET responseText == IF page.markdown THEN page.text ELSE TextEmpty
        frame == [text |-> responseText, textLength |-> Len(Trim(responseText)),
                  lastNode |-> hasLastNode(page)]
        reset == [s EXCEPT !.lastResponseText[d] = Null, !.stableCheckCount[d] = 0,
                           !.extractions[d] = <<>>]
        seen == [s EXCEPT !.extractions[d] = Slide(@, responseText)]
    IN  IF ~hasNewMessage(page, s.initialAssistantCount[d])
        THEN [s |-> s, ret |-> "false", frame |-> frame]
        ELSE IF hasLoadingShimmer(page)
        THEN [s |-> reset, ret |-> "false", frame |-> frame]
        ELSE IF ~hasCompletionMarker(page)
        THEN [s |-> reset, ret |-> "false", frame |-> frame]
        ELSE IF s.lastResponseText[d] # responseText
        THEN [s |-> [seen EXCEPT !.lastResponseText[d] = responseText,
                                 !.stableCheckCount[d] = 0],
              ret |-> "false", frame |-> frame]
        ELSE IF isStable(s.stableCheckCount[d] + 1)
        THEN [s |-> [seen EXCEPT !.stableCheckCount[d] = @ + 1],
              ret |-> "stable", frame |-> frame]
        ELSE [s |-> [seen EXCEPT !.stableCheckCount[d] = @ + 1],
              ret |-> "false", frame |-> frame]

\* extractGeneratedImage up to its await: TRUE when it goes on to download the
\* image (a container with an <img> that has a src), FALSE when it returns null.
extractStartsDownload(page) == page.container /\ page.img

\* A variant without the test for an empty reply.
completeCheckAnyway(s, d, frame, generatedImage) ==
    [s |-> sendResponseCallback(stopObservingResponses(s), d,
                                SuccessResponse(d, frame.text, generatedImage)),
     ret |-> TRUE]

\* The rest of checkForNewAssistantMessage, once extractGeneratedImage has
\* returned generatedImage.  ret is the check's return value.
completeCheck(s, d, frame, generatedImage) ==
    IF frame.textLength = 0 /\ generatedImage = NoImage
    THEN [s |-> s, ret |-> FALSE]
    ELSE [s |-> sendResponseCallback(stopObservingResponses(s), d,
                                     SuccessResponse(d, frame.text, generatedImage)),
          ret |-> TRUE]

\* A variant that gives up after half the polls.
pollTimedOutEarly(n) == 2 * n >= MAX_TIMEOUT_ATTEMPTS

\* timeoutAttempts >= MAX_TIMEOUT_ATTEMPTS
pollTimedOut(n) == n >= MAX_TIMEOUT_ATTEMPTS

\* The poll callback after its await of checkForNewAssistantMessage.
pollAfterCheck(s, d, ret) ==
    IF ret
    THEN [s EXCEPT !.pollInterval[d] = FALSE]
    ELSE IF pollTimedOut(s.timeoutAttempts[d])
    THEN sendResponseCallback(
             stopObservingResponses([s EXCEPT !.pollInterval[d] = FALSE]),
             d, TimeoutResponse)
    ELSE s

\* A check called from path ("poll" or "debounce"): it runs to its end, or is
\* suspended in the image download.
runCheck(s, d, page, path) ==
    LET c == checkForNewAssistantMessage(s, d, page)
        done == IF c.ret = "stable"
                THEN completeCheck(c.s, d, c.frame, NoImage)
                ELSE [s |-> c.s, ret |-> FALSE]
    IN  IF c.ret = "stable" /\ extractStartsDownload(page)
        THEN [c.s EXCEPT !.inflight[d] =
                  @ (+) SetToBag({[path |-> path, frame |-> c.frame]})]
        ELSE IF path = "poll" THEN pollAfterCheck(done.s, d, done.ret) ELSE done.s

\* Whether a check of d on the page would be suspended in the image download.
WouldSuspend(s, d, page) ==
    /\ checkForNewAssistantMessage(s, d, page).ret = "stable"
    /\ extractStartsDownload(page)

\* The MutationObserver callback of detector d, for a batch with a mutation it
\* reacts to: the debounce timer is cleared and set again for d's check.
mutationCallback(s, d) == [s EXCEPT !.responseTimeout = [owner |-> d, pending |-> TRUE]]

RECURSIVE notifyObservers(_, _)
notifyObservers(s, obs) ==
    IF obs = <<>> THEN s ELSE notifyObservers(mutationCallback(s, Head(obs)), Tail(obs))

(***************************************************************************)
(* content.js: the execute_prompt handler.                                 *)
(***************************************************************************)
ErrorMessage(d, reason) ==
    [id |-> d, response |-> ErrorObject(reason), status |-> Undefined,
     generatedImage |-> Undefined]

\* A variant that reports the missing input element and goes on.
afterEnsureGoesOn(s, d, image, inputPresent) ==
    IF ~inputPresent
    THEN runtimeSendMessage([s EXCEPT !.exec[d] = [stage |-> "polling", image |-> FALSE],
                                      !.attempts[d] = 0],
                            ErrorMessage(d, "Could not find page input element."))
    ELSE IF image
    THEN [s EXCEPT !.exec[d] = [stage |-> "pasting", image |-> FALSE]]
    ELSE [s EXCEPT !.exec[d] = [stage |-> "polling", image |-> FALSE],
                   !.attempts[d] = 0]

\* execute_prompt after await ensureTemporaryChatActive: the input element is
\* looked up; with an image the handler goes on to paste it.
afterEnsure(s, d, image, inputPresent) ==
    IF ~inputPresent
    THEN runtimeSendMessage([s EXCEPT !.exec[d] = [stage |-> "failed", image |-> FALSE]],
                            ErrorMessage(d, "Could not find page input element."))
    ELSE IF image
    THEN [s EXCEPT !.exec[d] = [stage |-> "pasting", image |-> FALSE]]
    ELSE [s EXCEPT !.exec[d] = [stage |-> "polling", image |-> FALSE],
                   !.attempts[d] = 0]

\* The handler is called with the message at the head of the tab's inbox.
\* suspends: ensureTemporaryChatActive found a button and waits for the UI.
ExecutePrompt(suspends, inputPresent) ==
    /\ inbox # <<>>
    /\ LET m == Head(inbox)
           s0 == [CS EXCEPT !.inbox = Tail(@),
                            !.exec[m.id] = [stage |-> "ensuring", image |-> m.image]]
       IN  Commit(IF suspends THEN s0 ELSE afterEnsure(s0, m.id, m.image, inputPresent))
    /\ UNCHANGED <<fnVars, pageVars, bgVars, srvVars>>

EnsureDone(d, inputPresent) ==
    /\ exec[d].stage = "ensuring"
    /\ Commit(afterEnsure(CS, d, exec[d].image, inputPresent))
    /\ UNCHANGED <<fnVars, pageVars, bgVars, srvVars>>

\* await pasteImageIntoChat(image) returns (ok) or throws.
PasteDone(d, ok) ==
    /\ exec[d].stage = "pasting"
    /\ Commit(IF ok
              THEN [CS EXCEPT !.exec[d].stage = "polling", !.attempts[d] = 0]
              ELSE runtimeSendMessage([CS EXCEPT !.exec[d].stage = "failed"],
                                      ErrorMessage(d, "Failed to paste image")))
    /\ UNCHANGED <<fnVars, pageVars, bgVars, srvVars>>

\* A variant that gives up one poll earlier.
sendButtonPollShort(s, d, ready, page) ==
    IF ready
    THEN startObservingResponses(
             [s EXCEPT !.exec[d].stage = "observing", !.attempts[d] = 0], d, page)
    ELSE IF s.attempts[d] + 1 >= SEND_BUTTON_ATTEMPTS
    THEN runtimeSendMessage([s EXCEPT !.attempts[d] = 0, !.exec[d].stage = "failed"],
                            ErrorMessage(d, "Timed out waiting for send button."))
    ELSE [s EXCEPT !.attempts[d] = @ + 1]

\* One run of the pollForSendButton interval callback; ready: the send button
\* exists and is enabled.  Once the interval is cleared its counter is dead:
\* the model sets it back to 0.
sendButtonPoll(s, d, ready, page) ==
    IF ready
    THEN startObservingResponses(
             [s EXCEPT !.exec[d].stage = "observing", !.attempts[d] = 0], d, page)
    ELSE IF s.attempts[d] + 1 > SEND_BUTTON_ATTEMPTS
    THEN runtimeSendMessage([s EXCEPT !.attempts[d] = 0, !.exec[d].stage = "failed"],
                            ErrorMessage(d, "Timed out waiting for send button."))
    ELSE [s EXCEPT !.attempts[d] = @ + 1]

SendButtonPoll(d, ready) ==
    /\ exec[d].stage = "polling"
    /\ Commit(sendButtonPoll(CS, d, ready, dom))
    /\ UNCHANGED <<fnVars, pageVars, bgVars, srvVars>>

(***************************************************************************)
(* content.js: the detector's timers and the page.                         *)
(***************************************************************************)
\* The setInterval callback of detector d.
PollTick(d) ==
    /\ pollInterval[d]
    /\ LET s1 == [CS EXCEPT !.timeoutAttempts[d] = @ + 1]
       IN  /\ WouldSuspend(s1, d, dom) => BagCardinality(inflight[d]) < MaxInFlight
           /\ Commit(runCheck(s1, d, dom, "poll"))
    /\ UNCHANGED <<fnVars, pageVars, bgVars, srvVars>>

\* The debounce timer fires and runs the check of the detector that set it.
DebounceFire ==
    /\ responseTimeout.pending
    /\ LET d == responseTimeout.owner
           s1 == [CS EXCEPT !.responseTimeout.pending = FALSE]
       IN  /\ WouldSuspend(s1, d, dom) => BagCardinality(inflight[d]) < MaxInFlight
           /\ Commit(runCheck(s1, d, dom, "debounce"))
    /\ UNCHANGED <<fnVars, pageVars, bgVars, srvVars>>

\* The image download of a suspended check f of d ends: with the image (ok)
\* or with an error, which extractGeneratedImage turns into null.
DownloadDone(d, f, ok) ==
    /\ BagIn(f, inflight[d])
    /\ LET s1 == [CS EXCEPT !.inflight[d] = @ (-) SetToBag({f})]
           c == completeCheck(s1, d, f.frame, IF ok THEN Image ELSE NoImage)
       IN  Commit(IF f.path = "poll" THEN pollAfterCheck(c.s, d, c.ret) ELSE c.s)
    /\ UNCHANGED <<fnVars, pageVars, bgVars, srvVars>>

\* The page changes to p (or stays, for a mutation that changes nothing the
\* selectors see).  notify: the batch holds a mutation the observers react to
\* (an added assistant article, a data-turn / data-is-last-node attribute
\* change or a characterData change); adding an assistant article always does.
DomChange(p, notify) ==
    /\ domChanges < MaxDomChanges
    /\ p # dom \/ notify
    /\ p.count > dom.count => notify
    /\ dom' = p
    /\ domChanges' = domChanges + 1
    /\ Commit(IF notify THEN notifyObservers(CS, observers) ELSE CS)
    /\ UNCHANGED <<fnVars, bgVars, srvVars>>

(***************************************************************************)
(* background.js: the socket to the server.                                *)
(***************************************************************************)
\* Number of keep-alive pings the model follows.
MaxPings == 1
\* Number of reconnect delays the history attemptDelays keeps.
MaxAttemptsSeen == 2

\* The delay of setTimeout(connectWebSocket, ...) in onclose, in milliseconds.
RECONNECT_DELAY_MS == 5000
\* The period of the keep-alive interval, in milliseconds.
KEEP_ALIVE_MS == 20000

NoTab == [exists |-> FALSE, listening |-> FALSE]
StaleTab == [exists |-> TRUE, listening |-> FALSE]
ReadyTab == [exists |-> TRUE, listening |-> TRUE]

NoPrompt == [stage |-> "none", image |-> FALSE]

PingMessage == [id |-> 0, type |-> "control", data |-> TextValue(<<"ping">>)]
Pings(sent) == Len(SelectSeq(sent, LAMBDA m : m.type = "control"))

\* The data of a message event: whether JSON.parse accepts it, and the
\* parsed message's type, id and whether its data holds an image.
PromptEvent(d, image) == [parses |-> TRUE, type |-> "prompt", id |-> d, image |-> image]
ControlEvent(d) == [parses |-> TRUE, type |-> "control", id |-> d, image |-> FALSE]
GarbledEvent == [parses |-> FALSE, type |-> "", id |-> 0, image |-> FALSE]

\* websocket.send(message): the message leaves only on an OPEN socket (send
\* throws on a CONNECTING socket and discards on a closed one).
websocketSend(ws, sent, message) == IF ws = "OPEN" THEN Append(sent, message) ELSE sent

\* The error responses the background script builds itself.
errorResponse(d, text) ==
    [id |-> d, type |-> "response",
     data |-> [status |-> TextValue(<<"error">>), response |-> TextValue(text),
               generatedImage |-> Undefined]]

\* A variant that leaves the interval running.
clearNothing(handle, running) == running

\* if (keepAliveInterval) clearInterval(keepAliveInterval): the number of
\* timers that run afterwards.
clearKeepAlive(handle, running) == IF handle # 0 THEN running - 1 ELSE running

\* websocket.onopen
onopen ==
    /\ websocket = "CONNECTING"
    /\ websocket' = "OPEN"
    /\ keepAliveInterval' = KEEP_ALIVE_MS
    /\ intervals' = clearKeepAlive(keepAliveInterval, intervals) + 1
    /\ attemptDelays' = <<>>
    /\ UNCHANGED <<reconnectTimer, console, bg, tab, wsSent, fnVars, pageVars, csVars, srvVars>>

\* The keep-alive interval callback; throws: websocket.send throws.
keepAliveCallback(ws, sent, log, throws) ==
    IF ws # "OPEN"
    THEN [wsSent |-> sent, console |-> log]
    ELSE IF throws
    THEN [wsSent |-> sent, console |-> log \cup {"Failed to send keep-alive:"}]
    ELSE [wsSent |-> websocketSend(ws, sent, PingMessage), console |-> log]

\* A variant in which a failing send ends the keep-alive.
KeepAliveTickFatal(throws) ==
    /\ keepAliveInterval # 0
    /\ Pings(wsSent) < MaxPings
    /\ LET after == keepAliveCallback(websocket, wsSent, console, throws)
       IN  wsSent' = after.wsSent /\ console' = after.console
    /\ keepAliveInterval' = IF throws THEN 0 ELSE keepAliveInterval
    /\ intervals' = IF throws THEN 0 ELSE intervals
    /\ UNCHANGED <<websocket, reconnectTimer, attemptDelays, bg, tab, fnVars, pageVars, csVars, srvVars>>

KeepAliveTick(throws) ==
    /\ intervals > 0
    /\ Pings(wsSent) < MaxPings
    /\ LET after == keepAliveCallback(websocket, wsSent, console, throws)
       IN  wsSent' = after.wsSent /\ console' = after.console
    /\ UNCHANGED <<socketVars, bg, tab, fnVars, pageVars, csVars, srvVars>>

\* A variant that schedules no reconnect.
scheduleNothing(timers) == timers

\* A variant in which the error event schedules a reconnect of its own.
scheduleTwice(timers) == Append(Append(timers, RECONNECT_DELAY_MS), RECONNECT_DELAY_MS)

\* The reconnect timeouts pending after onclose has run.
scheduleReconnect(timers) == Append(timers, RECONNECT_DELAY_MS)

\* websocket.onclose: the connection attempt failed or the connection dropped.
\* attemptDelays (history) keeps the delays scheduled since the socket was
\* last open.
onclose ==
    /\ websocket \in {"CONNECTING", "OPEN"}
    /\ websocket' = "CLOSED"
    /\ keepAliveInterval' = 0
    /\ intervals' = clearKeepAlive(keepAliveInterval, intervals)
    /\ reconnectTimer' = scheduleReconnect(reconnectTimer)
    /\ attemptDelays' = IF Len(attemptDelays) < MaxAttemptsSeen
                        THEN Append(attemptDelays, RECONNECT_DELAY_MS)
                        ELSE Append(Tail(attemptDelays), RECONNECT_DELAY_MS)
    /\ UNCHANGED <<console, bg, tab, wsSent, fnVars, pageVars, csVars, srvVars>>

\* The reconnect timer fires.
connectWebSocket ==
    /\ reconnectTimer # <<>>
    /\ reconnectTimer' = Tail(reconnectTimer)
    /\ websocket' = "CONNECTING"
    /\ UNCHANGED <<keepAliveInterval, intervals, attemptDelays, console, bg, tab, wsSent,
                   fnVars, pageVars, csVars, srvVars>>

(***************************************************************************)
(* background.js: routing a prompt to the tab and a result to the server.  *)
(***************************************************************************)
\* chrome.tabs.sendMessage(targetTab.id, execute_prompt): delivered to the
\* content script when it listens, else the promise is rejected.
tabsSendMessage(d) ==
    IF tab.listening
    THEN /\ Commit([CS EXCEPT !.inbox = Append(@, [id |-> d, image |-> bg[d].image])])
         /\ bg' = [bg EXCEPT ![d].stage = "delivered"]
    ELSE /\ bg' = [bg EXCEPT ![d].stage = "rejected"]
         /\ UNCHANGED csVars

\* A variant that also takes a control message for an instruction.
isPromptOrControl(message) == message.type \in {"prompt", "control"}

\* message.type === 'prompt'
isPrompt(message) == message.type = "prompt"

\* websocket.onmessage: a 'prompt' message calls chrome.tabs.query (the
\* Dispatcher gives every prompt a fresh id); any other message is logged.
onmessage(event) ==
    /\ websocket = "OPEN"
    /\ IF ~event.parses
       THEN /\ console' = console \cup {"Failed to parse WebSocket message:"}
            /\ UNCHANGED bg
       ELSE IF isPrompt(event)
       THEN /\ bg[event.id].stage = "none"
            /\ bg' = [bg EXCEPT ![event.id] = [stage |-> "query", image |-> event.image]]
            /\ UNCHANGED console
       ELSE /\ console' = console \cup {"Received unknown message type from server:"}
            /\ UNCHANGED bg
    /\ UNCHANGED <<socketVars, tab, wsSent, fnVars, pageVars, csVars, srvVars>>

\* A variant that opens a new tab for every prompt.
tabsQueryAlwaysCreates(d) ==
    /\ bg[d].stage = "query"
    /\ bg' = [bg EXCEPT ![d].stage = "creating"]
    /\ UNCHANGED csVars
    /\ UNCHANGED <<socketVars, console, tab, wsSent, fnVars, pageVars, srvVars>>

\* The chrome.tabs.query callback up to its first await.
tabsQueryCallback(d) ==
    /\ bg[d].stage = "query"
    /\ IF tab.exists
       THEN tabsSendMessage(d)
       ELSE bg' = [bg EXCEPT ![d].stage = "creating"] /\ UNCHANGED csVars
    /\ UNCHANGED <<socketVars, console, tab, wsSent, fnVars, pageVars, srvVars>>

\* await chrome.tabs.create returns the tab (ok) or throws.
tabsCreateDone(d, ok) ==
    /\ bg[d].stage = "creating"
    /\ IF ok
       THEN /\ tab' = StaleTab
            /\ bg' = [bg EXCEPT ![d].stage = "loading"]
            /\ UNCHANGED <<wsSent, console>>
       ELSE /\ wsSent' = websocketSend(websocket, wsSent,
                                       errorResponse(d, <<"Failed to create ChatGPT tab.">>))
            /\ console' = console \cup {"Failed to create ChatGPT tab:"}
            /\ bg' = [bg EXCEPT ![d].stage = "failed"]
            /\ UNCHANGED tab
    /\ UNCHANGED <<socketVars, fnVars, pageVars, csVars, srvVars>>

\* The tab finishes loading and its content script starts to listen.
TabLoaded ==
    /\ tab = StaleTab
    /\ tab' = ReadyTab
    /\ UNCHANGED <<socketVars, console, bg, wsSent, fnVars, pageVars, csVars, srvVars>>

\* A variant that gives the request up when the 30 s pass.
loadWaitStops(d, timedOut) ==
    /\ bg[d].stage = "loading"
    /\ ~timedOut => tab.listening
    /\ IF timedOut
       THEN /\ wsSent' = websocketSend(websocket, wsSent,
                                       errorResponse(d, <<"Failed to create ChatGPT tab.">>))
            /\ bg' = [bg EXCEPT ![d].stage = "failed"]
            /\ UNCHANGED csVars
       ELSE tabsSendMessage(d) /\ UNCHANGED wsSent
    /\ UNCHANGED <<socketVars, console, tab, fnVars, pageVars, srvVars>>

\* The wait for the new tab ends: 2 s after the load completed (the content
\* script listens by then), or after 30 s (timedOut); either way the promise
\* resolves and the handler goes on to chrome.tabs.sendMessage.
loadWaitDone(d, timedOut) ==
    /\ bg[d].stage = "loading"
    /\ ~timedOut => tab.listening
    /\ tabsSendMessage(d)
    /\ UNCHANGED <<socketVars, console, tab, wsSent, fnVars, pageVars, srvVars>>

\* The .catch handler of chrome.tabs.sendMessage.
sendMessageCatch(d) ==
    /\ bg[d].stage = "rejected"
    /\ wsSent' = websocketSend(websocket, wsSent,
           errorResponse(d, <<"Could not connect to the content script. The page may still be loading.">>))
    /\ console' = console \cup {"Error sending message to content script:"}
    /\ bg' = [bg EXCEPT ![d].stage = "failed"]
    /\ UNCHANGED <<socketVars, tab, fnVars, pageVars, csVars, srvVars>>

\* A variant that answers with the id of the first request.
serverMessageFirstId(message) ==
    [id |-> 1, type |-> "response",
     data |-> [status |-> message.status, response |-> message.response,
               generatedImage |-> message.generatedImage]]

\* The message the runtime listener builds from a content script's message.
serverMessage(message) ==
    [id |-> message.id, type |-> "response",
     data |-> [status |-> message.status, response |-> message.response,
               generatedImage |-> message.generatedImage]]

\* A variant that keeps a message it cannot send for later.
runtimeOnMessageKeeps ==
    /\ rtQueue # <<>>
    /\ IF websocket = "OPEN"
       THEN /\ wsSent' = websocketSend(websocket, wsSent, serverMessage(Head(rtQueue)))
            /\ Commit([CS EXCEPT !.rtQueue = Tail(@)])
            /\ UNCHANGED console
       ELSE /\ console' = console \cup {"WebSocket is not connected. Cannot send message to server."}
            /\ Commit([CS EXCEPT !.rtQueue = Append(Tail(@), Head(rtQueue))])
            /\ UNCHANGED wsSent
    /\ UNCHANGED <<socketVars, bg, tab, fnVars, pageVars, srvVars>>

\* chrome.runtime.onMessage listener, for a message from the content script.
runtimeOnMessage ==
    /\ rtQueue # <<>>
    /\ IF websocket = "OPEN"
       THEN /\ wsSent' = websocketSend(websocket, wsSent, serverMessage(Head(rtQueue)))
            /\ UNCHANGED console
       ELSE /\ console' = console \cup {"WebSocket is not connected. Cannot send message to server."}
            /\ UNCHANGED wsSent
    /\ Commit([CS EXCEPT !.rtQueue = Tail(@)])
    /\ UNCHANGED <<socketVars, bg, tab, fnVars, pageVars, srvVars>>

\* The background script while the content script of a listening tab is followed.
InitBackground(stage) ==
    /\ websocket = "OPEN"
    /\ keepAliveInterval = KEEP_ALIVE_MS
    /\ intervals = 1
    /\ reconnectTimer = <<>>
    /\ attemptDelays = <<>>
    /\ console = {}
    /\ bg = [d \in Ids |-> [stage |-> stage[d], image |-> FALSE]]
    /\ tab = ReadyTab
    /\ wsSent = <<>>

(***************************************************************************)
(* The relay server (its code is not part of the sources): Correlation     *)
(* Store, Connection Gateway and Request Dispatcher as the specification   *)
(* describes them.  Time is counted in seconds and advances in steps.      *)
(***************************************************************************)
\* Number of callers; each submits one request.
MaxRequests == 2
\* Number of result messages the extension sends.
MaxReplies == 2
\* Number of inbound connections the server accepts.
MaxConnections == 2
\* The largest advance of the clock in one step, in seconds.
ClockStep == 60

\* The Dispatcher's deadline, in seconds.
DEADLINE_SECONDS == 120

Requests == 1..MaxRequests

NewRequest == [state |-> "new", id |-> 0]

Min(S) == CHOOSE x \in S : \A y \in S : x <= y

\* A variant that takes any pending handle for the one looked up.
HandlesOfAny(st, id) == st

\* The handles of the store with identifier id.
HandlesOf(st, id) == SelectSeq(st, LAMBDA h : h.id = id)

\* A variant that also accepts while the connection is being set up.
gatewayIsNotClosed(g) == g # "closed"

\* The Connection Gateway accepts a send.
gatewayIsOpen(g) == g = "open"

\* register(id, deadline): a Pending Handle for the waiting caller.
register(st, id, r) == Append(st, [id |-> id, caller |-> r, elapsed |-> 0])

\* A variant that leaves the handle in the store.
keepHandle(st, id) == st

\* Removal of the handle of id from the store.
removeHandle(st, id) == SelectSeq(st, LAMBDA h : h.id # id)

\* A variant that waits for the clock to pass the deadline.
deadlinePassed(h) == h.elapsed > DEADLINE_SECONDS

\* The deadline of a handle has elapsed.
deadlineElapsed(h) == h.elapsed >= DEADLINE_SECONDS

\* An outcome is handed to the suspended caller of handle h.
deliver(out, h, kind) == [out EXCEPT ![h.caller] = Append(@, [kind |-> kind, at |-> h.elapsed])]

\* submit: the Request Dispatcher accepts the request of caller r.
submit(r) ==
    /\ request[r].state = "new"
    /\ IF gatewayIsOpen(gateway)
       THEN /\ store' = register(store, nextId, r)
            /\ nextId' = nextId + 1
            /\ request' = [request EXCEPT ![r] = [state |-> "waiting", id |-> nextId]]
            /\ toExt' = Append(toExt, nextId)
            /\ sentVia' = sentVia \cup {[id |-> nextId, via |-> current]}
            /\ UNCHANGED outcomes
       ELSE /\ request' = [request EXCEPT ![r] = [state |-> "returned", id |-> 0]]
            /\ outcomes' = [outcomes EXCEPT
                               ![r] = Append(@, [kind |-> "GatewayUnavailable", at |-> 0])]
            /\ UNCHANGED <<store, nextId, toExt, sentVia>>
    /\ UNCHANGED <<gateway, received, fromExt, replies, resolveLog, accepted, current,
                   fnVars, pageVars, csVars, bgVars>>

\* resolve(id, outcome): a result message arrives at the server.
resolve ==
    /\ fromExt # <<>>
    /\ LET m == Head(fromExt)
           hs == HandlesOf(store, m.id)
       IN  /\ fromExt' = Tail(fromExt)
           /\ resolveLog' = resolveLog \cup {[id |-> m.id, found |-> hs # <<>>]}
           /\ IF hs # <<>>
              THEN /\ store' = removeHandle(store, m.id)
                   /\ outcomes' = deliver(outcomes, hs[1], m.kind)
                   /\ request' = [request EXCEPT ![hs[1].caller].state = "returned"]
              ELSE UNCHANGED <<store, outcomes, request>>
    /\ UNCHANGED <<gateway, nextId, toExt, received, replies, linkVars, fnVars, pageVars, csVars, bgVars>>

\* expire(id): the deadline of the handle of id elapses with no resolution.
expire(id) ==
    /\ HandlesOf(store, id) # <<>>
    /\ LET h == HandlesOf(store, id)[1]
       IN  /\ deadlineElapsed(h)
           /\ store' = removeHandle(store, id)
           /\ outcomes' = deliver(outcomes, h, "Timeout")
           /\ request' = [request EXCEPT ![h.caller].state = "returned"]
    /\ UNCHANGED <<gateway, nextId, toExt, received, fromExt, replies, resolveLog,
                   linkVars, fnVars, pageVars, csVars, bgVars>>

\* Time passes for the pending handles, never beyond the earliest deadline.
Tick ==
    /\ store # <<>>
    /\ LET delta == Min({ClockStep} \cup
                        {DEADLINE_SECONDS - store[i].elapsed : i \in 1..Len(store)})
       IN  /\ delta > 0
           /\ store' = [i \in 1..Len(store) |->
                           [store[i] EXCEPT !.elapsed = @ + delta]]
    /\ UNCHANGED <<gateway, nextId, request, outcomes, toExt, received, fromExt, replies,
                   resolveLog, linkVars, fnVars, pageVars, csVars, bgVars>>

\* Time passes by delta seconds for the pending handles, up to their deadlines.
Advance(delta) ==
    /\ store # <<>>
    /\ \A i \in 1..Len(store) : store[i].elapsed + delta <= DEADLINE_SECONDS
    /\ store' = [i \in 1..Len(store) |-> [store[i] EXCEPT !.elapsed = @ + delta]]
    /\ UNCHANGED <<gateway, nextId, request, outcomes, toExt, received, fromExt, replies,
                   resolveLog, linkVars, fnVars, pageVars, csVars, bgVars>>

\* The extension connects: a new connection supersedes a prior one.
GatewayConnect ==
    /\ gateway = "closed"
    /\ gateway' = "connecting"
    /\ UNCHANGED <<store, nextId, request, outcomes, toExt, received, fromExt, replies,
                   resolveLog, linkVars, fnVars, pageVars, csVars, bgVars>>

\* A variant that keeps a prior connection in use.
keepPrior(prior, n) == IF prior # 0 THEN prior ELSE n

\* The connection in use once the inbound connection n is accepted while
\* prior was in use.
supersede(prior, n) == n

\* The inbound connection is accepted and becomes the one in use.
GatewayOpen ==
    /\ gateway = "connecting"
    /\ accepted < MaxConnections
    /\ gateway' = "open"
    /\ accepted' = accepted + 1
    /\ current' = supersede(current, accepted + 1)
    /\ UNCHANGED <<store, nextId, request, outcomes, toExt, received, fromExt, replies,
                   resolveLog, sentVia, fnVars, pageVars, csVars, bgVars>>

\* Another inbound connection is accepted while one is in use.
GatewaySupersede ==
    /\ gateway = "open"
    /\ accepted < MaxConnections
    /\ accepted' = accepted + 1
    /\ current' = supersede(current, accepted + 1)
    /\ UNCHANGED <<gateway, store, nextId, request, outcomes, toExt, received, fromExt,
                   replies, resolveLog, sentVia, fnVars, pageVars, csVars, bgVars>>

\* A variant in which the drop fails the pending handles.
GatewayCloseFailsHandles ==
    /\ gateway \in {"connecting", "open"}
    /\ gateway' = "closed"
    /\ toExt' = <<>>
    /\ fromExt' = <<>>
    /\ store' = <<>>
    /\ current' = 0
    /\ UNCHANGED <<nextId, request, outcomes, received, replies, resolveLog,
                   accepted, sentVia, fnVars, pageVars, csVars, bgVars>>

\* The connection drops: what is in flight is lost, pending handles stay.
GatewayClose ==
    /\ gateway \in {"connecting", "open"}
    /\ gateway' = "closed"
    /\ toExt' = <<>>
    /\ fromExt' = <<>>
    /\ current' = 0
    /\ UNCHANGED <<store, nextId, request, outcomes, received, replies, resolveLog,
                   accepted, sentVia, fnVars, pageVars, csVars, bgVars>>

\* The extension receives the next instruction.
ExtensionReceive ==
    /\ toExt # <<>>
    /\ received' = received \cup {Head(toExt)}
    /\ toExt' = Tail(toExt)
    /\ UNCHANGED <<gateway, store, nextId, request, outcomes, fromExt, replies, resolveLog,
                   linkVars, fnVars, pageVars, csVars, bgVars>>

\* The extension sends a result for an instruction it received: once, late
\* or more than once.
ExtensionReply(id, kind) ==
    /\ gatewayIsOpen(gateway)
    /\ id \in received
    /\ replies < MaxReplies
    /\ replies' = replies + 1
    /\ fromExt' = Append(fromExt, [id |-> id, kind |-> kind])
    /\ UNCHANGED <<gateway, store, nextId, request, outcomes, toExt, received, resolveLog,
                   linkVars, fnVars, pageVars, csVars, bgVars>>

\* A result arrives whose identifier the Dispatcher never issued.
UnknownId == 0

ExtensionStray(kind) ==
    /\ gatewayIsOpen(gateway)
    /\ replies < MaxReplies
    /\ replies' = replies + 1
    /\ fromExt' = Append(fromExt, [id |-> UnknownId, kind |-> kind])
    /\ UNCHANGED <<gateway, store, nextId, request, outcomes, toExt, received, resolveLog,
                   linkVars, fnVars, pageVars, csVars, bgVars>>

\* The relay server while the extension alone is followed.
IdleServer ==
    /\ gateway = "closed"
    /\ store = <<>>
    /\ nextId = 1
    /\ request = [r \in Requests |-> NewRequest]
    /\ outcomes = [r \in Requests |-> <<>>]
    /\ toExt = <<>>
    /\ received = {}
    /\ fromExt = <<>>
    /\ replies = 0
    /\ resolveLog = {}
    /\ accepted = 0
    /\ current = 0
    /\ sentVia = {}

(***************************************************************************)
(* One prompt in one tab: the content script from the arrival of the       *)
(* execute_prompt message on.                                              *)
(***************************************************************************)
NoExec == [stage |-> "none", image |-> FALSE]

\* No helper call is followed.
NoCall == [fn |-> "none"]

\* The content script before it has handled a message.
IdleContent(msgs) ==
    /\ dom \in {EmptyChat, OldReply}
    /\ domChanges = 0
    /\ inbox = msgs
    /\ exec = [d \in Ids |-> NoExec]
    /\ attempts = [d \in Ids |-> 0]
    /\ responseObserver = 0
    /\ responseTimeout = NoTimer
    /\ observers = <<>>
    /\ pollInterval = [d \in Ids |-> FALSE]
    /\ initialAssistantCount = [d \in Ids |-> 0]
    /\ timeoutAttempts = [d \in Ids |-> 0]
    /\ lastResponseText = [d \in Ids |-> Null]
    /\ stableCheckCount = [d \in Ids |-> 0]
    /\ inflight = [d \in Ids |-> EmptyBag]
    /\ callbackLog = [d \in Ids |-> <<>>]
    /\ extractions = [d \in Ids |-> <<>>]
    /\ rtQueue = <<>>

InitContent(msgs) == call = NoCall /\ IdleContent(msgs)

InitDetector ==
    /\ \E image \in BOOLEAN : InitContent(<<[id |-> 1, image |-> image]>>)
    /\ InitBackground(<<"delivered", "none">>)
    /\ IdleServer

NextDetector ==
    \/ \E suspends, inputPresent \in BOOLEAN : ExecutePrompt(suspends, inputPresent)
    \/ \E d \in Ids, inputPresent \in BOOLEAN : EnsureDone(d, inputPresent)
    \/ \E d \in Ids, ok \in BOOLEAN : PasteDone(d, ok)
    \/ \E d \in Ids, ready \in BOOLEAN : SendButtonPoll(d, ready)
    \/ \E d \in Ids : PollTick(d)
    \/ DebounceFire
    \/ \E d \in Ids, ok \in BOOLEAN :
           \E f \in BagToSet(inflight[d]) : DownloadDone(d, f, ok)
    \/ \E p \in Pages, notify \in BOOLEAN : DomChange(p, notify)

SpecDetector == InitDetector /\ [][NextDetector]_vars

(***************************************************************************)
(* Two prompts routed to one tab: the second execute_prompt message        *)
(* arrives while the first is still handled.  The page is followed for     *)
(* the first MaxPageTicks ticks of each poll interval.                     *)
(***************************************************************************)
MaxPageTicks == 4

InitPage ==
    /\ \E image \in BOOLEAN :
           InitContent(<<[id |-> 1, image |-> FALSE], [id |-> 2, image |-> image]>>)
    /\ InitBackground(<<"delivered", "delivered">>)
    /\ IdleServer

NextPage ==
    \/ \E suspends, inputPresent \in BOOLEAN : ExecutePrompt(suspends, inputPresent)
    \/ \E d \in Ids, inputPresent \in BOOLEAN : EnsureDone(d, inputPresent)
    \/ \E d \in Ids, ok \in BOOLEAN : PasteDone(d, ok)
    \/ \E d \in Ids, ready \in BOOLEAN : SendButtonPoll(d, ready)
    \/ \E d \in Ids : timeoutAttempts[d] < MaxPageTicks /\ PollTick(d)
    \/ DebounceFire
    \/ \E d \in Ids, ok \in BOOLEAN :
           \E f \in BagToSet(inflight[d]) : DownloadDone(d, f, ok)
    \/ \E p \in Pages, notify \in BOOLEAN : DomChange(p, notify)

SpecPage == InitPage /\ [][NextPage]_vars

(***************************************************************************)
(* The extension: one prompt from its arrival over the socket to the       *)
(* messages the server receives for it.  The page changes MaxExtDomChanges *)
(* times.                                                                  *)
(***************************************************************************)
MaxExtDomChanges == 1

InitExtension ==
    /\ InitContent(<<>>)
    /\ websocket = "CONNECTING"
    /\ keepAliveInterval = 0
    /\ intervals = 0
    /\ reconnectTimer = <<>>
    /\ attemptDelays = <<>>
    /\ console = {}
    /\ bg = [d \in Ids |-> NoPrompt]
    /\ tab \in {NoTab, StaleTab, ReadyTab}
    /\ wsSent = <<>>
    /\ IdleServer

NextExtension ==
    \/ onopen
    \/ onclose
    \/ connectWebSocket
    \/ \E image \in BOOLEAN : onmessage(PromptEvent(1, image))
    \/ \E d \in Ids : tabsQueryCallback(d)
    \/ \E d \in Ids, ok \in BOOLEAN : tabsCreateDone(d, ok)
    \/ TabLoaded
    \/ \E d \in Ids, timedOut \in BOOLEAN : loadWaitDone(d, timedOut)
    \/ \E d \in Ids : sendMessageCatch(d)
    \/ runtimeOnMessage
    \/ \E suspends, inputPresent \in BOOLEAN : ExecutePrompt(suspends, inputPresent)
    \/ \E d \in Ids, inputPresent \in BOOLEAN : EnsureDone(d, inputPresent)
    \/ \E d \in Ids, ok \in BOOLEAN : PasteDone(d, ok)
    \/ \E d \in Ids, ready \in BOOLEAN : SendButtonPoll(d, ready)
    \/ \E d \in Ids : PollTick(d)
    \/ DebounceFire
    \/ \E d \in Ids, ok \in BOOLEAN :
           \E f \in BagToSet(inflight[d]) : DownloadDone(d, f, ok)
    \/ \E p \in Pages, notify \in BOOLEAN :
           tab.listening /\ domChanges < MaxExtDomChanges /\ DomChange(p, notify)

SpecExtension == InitExtension /\ [][NextExtension]_vars

(***************************************************************************)
(* The background script with two prompts; the content script is its       *)
(* environment: it takes an execute_prompt message and sends, with the id  *)
(* of that message, the messages the execute_prompt handler can send.      *)
(***************************************************************************)
\* Number of results the detector of one request reports.
MaxReports == 1

\* The reasons of the execute_prompt handler's own error messages.
ContentReasons ==
    {"Could not find page input element.", "Timed out waiting for send button."}

\* The responses a detector hands to its callback.
DetectorResponses(d) ==
    {SuccessResponse(d, TextA, NoImage), SuccessResponse(d, TextEmpty, Image), TimeoutResponse}

\* execute_prompt fails before the detector is started.
ContentFails(d, reason) ==
    /\ inbox # <<>>
    /\ Head(inbox).id = d
    /\ Commit(runtimeSendMessage([CS EXCEPT !.inbox = Tail(@), !.exec[d].stage = "failed"],
                                  ErrorMessage(d, reason)))
    /\ UNCHANGED <<fnVars, pageVars, bgVars, srvVars>>

\* execute_prompt submits the prompt and starts the detector.
ContentStarts(d) ==
    /\ inbox # <<>>
    /\ Head(inbox).id = d
    /\ Commit([CS EXCEPT !.inbox = Tail(@), !.exec[d].stage = "observing"])
    /\ UNCHANGED <<fnVars, pageVars, bgVars, srvVars>>

\* The detector of d calls its callback.
ContentReports(d, response) ==
    /\ exec[d].stage = "observing"
    /\ Len(callbackLog[d]) < MaxReports
    /\ Commit(sendResponseCallback(CS, d, response))
    /\ UNCHANGED <<fnVars, pageVars, bgVars, srvVars>>

InitBackgroundAlone ==
    /\ InitContent(<<>>)
    /\ dom = EmptyChat
    /\ websocket = "CONNECTING"
    /\ keepAliveInterval = 0
    /\ intervals = 0
    /\ reconnectTimer = <<>>
    /\ attemptDelays = <<>>
    /\ console = {}
    /\ bg = [d \in Ids |-> NoPrompt]
    /\ tab \in {NoTab, ReadyTab}
    /\ wsSent = <<>>
    /\ IdleServer

NextBackground ==
    \/ onopen
    \/ \E throws \in BOOLEAN : KeepAliveTick(throws)
    \/ onclose
    \/ connectWebSocket
    \/ \E d \in Ids, image \in BOOLEAN : onmessage(PromptEvent(d, image))
    \/ \E d \in Ids : onmessage(ControlEvent(d))
    \/ onmessage(GarbledEvent)
    \/ \E d \in Ids : tabsQueryCallback(d)
    \/ \E d \in Ids, ok \in BOOLEAN : tabsCreateDone(d, ok)
    \/ TabLoaded
    \/ \E d \in Ids, timedOut \in BOOLEAN : loadWaitDone(d, timedOut)
    \/ \E d \in Ids : sendMessageCatch(d)
    \/ runtimeOnMessage
    \/ \E d \in Ids, reason \in ContentReasons : ContentFails(d, reason)
    \/ \E d \in Ids : ContentStarts(d)
    \/ \E d \in Ids : \E response \in DetectorResponses(d) : ContentReports(d, response)

SpecBackground == InitBackgroundAlone /\ [][NextBackground]_vars

\* The reconnect timer fires when it is due, and a connection attempt that
\* is not refused is completed.
FairBackground == SpecBackground /\ WF_vars(connectWebSocket) /\ WF_vars(onopen)

(***************************************************************************)
(* The relay server with its callers; the extension is its environment.   *)
(* The callers are interchangeable: they submit in the order of their      *)
(* numbers.                                                                *)
(***************************************************************************)
InitServer ==
    /\ IdleServer
    /\ InitContent(<<>>)
    /\ dom = EmptyChat
    /\ InitBackground(<<"none", "none">>)

NextServer ==
    \/ \E r \in Requests : (\A q \in 1..(r - 1) : request[q].state # "new") /\ submit(r)
    \/ resolve
    \/ \E id \in 1..MaxRequests : expire(id)
    \/ Tick
    \/ GatewayConnect
    \/ GatewayOpen
    \/ GatewaySupersede
    \/ GatewayClose
    \/ ExtensionReceive
    \/ \E id \in 1..MaxRequests, kind \in {"Success", "Error"} : ExtensionReply(id, kind)
    \/ \E kind \in {"Success", "Error"} : ExtensionStray(kind)

SpecServer == InitServer /\ [][NextServer]_vars

\* Time passes and a deadline that has elapsed is acted on.
FairServer ==
    /\ SpecServer
    /\ WF_vars(Tick)
    /\ \A id \in 1..MaxRequests : WF_vars(expire(id))

(***************************************************************************)
(* One request from the caller to the page and back, over a connection     *)
(* that stays up: the relay server, the background script and the content  *)
(* script, with the time the request has waited.  The page never shows a   *)
(* completed reply.  The poll interval of the detector fires once a        *)
(* second at most: its k-th callback runs when the request has waited k    *)
(* seconds or more.                                                        *)
(***************************************************************************)
\* The period of the detector's poll interval, in seconds.
POLL_SECONDS == 1

\* Pages a check never takes for a completed reply.
UnfinishedPages == {p \in Pages : hasLoadingShimmer(p) \/ ~hasCompletionMarker(p)}

\* The outcome the server hands on for a result message.
ResultKind(data) == IF data.status = TextValue(<<"success">>) THEN "Success" ELSE "Error"

\* The time the request with identifier id has waited (the deadline once
\* its handle is gone).
Waited(id) ==
    IF HandlesOf(store, id) # <<>> THEN HandlesOf(store, id)[1].elapsed ELSE DEADLINE_SECONDS

InitRelay ==
    /\ InitContent(<<>>)
    /\ InitBackground(<<"none", "none">>)
    /\ gateway = "open"
    /\ store = <<>>
    /\ nextId = 1
    /\ request = [r \in Requests |-> NewRequest]
    /\ outcomes = [r \in Requests |-> <<>>]
    /\ toExt = <<>>
    /\ received = {}
    /\ fromExt = <<>>
    /\ replies = 0
    /\ resolveLog = {}
    /\ accepted = 1
    /\ current = 1
    /\ sentVia = {}

NextRelay ==
    \/ submit(1)
    \/ ExtensionReceive
    \/ \E d \in received : onmessage(PromptEvent(d, FALSE))
    \/ \E d \in Ids : tabsQueryCallback(d)
    \/ \E suspends, inputPresent \in BOOLEAN : ExecutePrompt(suspends, inputPresent)
    \/ \E d \in Ids, inputPresent \in BOOLEAN : EnsureDone(d, inputPresent)
    \/ \E d \in Ids, ready \in BOOLEAN : SendButtonPoll(d, ready)
    \/ \E d \in Ids : (timeoutAttempts[d] + 1) * POLL_SECONDS <= Waited(d) /\ PollTick(d)
    \/ DebounceFire
    \/ \E p \in UnfinishedPages, notify \in BOOLEAN : DomChange(p, notify)
    \/ runtimeOnMessage
    \/ \E id \in Ids :
           /\ replies < Len(wsSent)
           /\ wsSent[replies + 1].id = id
           /\ ExtensionReply(id, ResultKind(wsSent[replies + 1].data))
    \/ resolve
    \/ \E id \in Ids : expire(id)
    \/ Advance(POLL_SECONDS)

SpecRelay == InitRelay /\ [][NextRelay]_vars

(***************************************************************************)
(* The flags of an instruction: the payload of a 'prompt' message from its *)
(* arrival in the background script to ensureTemporaryChatActive.          *)
(***************************************************************************)
\* JavaScript values a flag of the payload can hold; Undefined: the field
\* is absent.
BoolValue(b) == [kind |-> "boolean", value |-> b]
JsNull == [kind |-> "null"]
FlagValues == {Undefined, BoolValue(TRUE), BoolValue(FALSE), JsNull}

\* if (flag): of the values a flag holds only true passes.
Truthy(v) == v = BoolValue(TRUE)

\* The data of a 'prompt' message: a string (legacy) or an object.
StringData(t) == [kind |-> "string", text |-> t]
ObjectData(t, image, startNewChat, useTemporaryChat) ==
    [kind |-> "object", prompt |-> TextValue(t), image |-> image,
     startNewChat |-> startNewChat, useTemporaryChat |-> useTemporaryChat]

Payloads ==
    {StringData(TextA)} \cup
    {ObjectData(TextA, image, n, t) :
        image \in {Undefined, TextValue(TextAB)}, n \in FlagValues, t \in FlagValues}

\* typeof data === 'string' ? { prompt: data } : data
messageData(data) ==
    IF data.kind = "string"
    THEN ObjectData(data.text, Undefined, Undefined, Undefined)
    ELSE data

\* A variant that takes every flag for true.
flagOrTrue(v) == BoolValue(TRUE)

\* data.flag !== undefined ? data.flag : true
flagOrDefault(v) == IF v # Undefined THEN v ELSE BoolValue(TRUE)

\* background.js builds messageData and sends execute_prompt to the tab.
ForwardData ==
    /\ call.fn = "onmessage"
    /\ call' = [fn |-> "execute_prompt", input |-> call.input, data |-> messageData(call.input)]
    /\ UNCHANGED <<pageVars, csVars, bgVars, srvVars>>

\* execute_prompt reads prompt, image and the two flags from request.data.
ReadFlags ==
    /\ call.fn = "execute_prompt"
    /\ LET data == messageData(call.data)
       IN  call' = [fn |-> "ensureTemporaryChatActive", input |-> call.input,
                    prompt |-> data.prompt, image |-> data.image,
                    startNewChat |-> flagOrDefault(data.startNewChat),
                    useTemporaryChat |-> flagOrDefault(data.useTemporaryChat)]
    /\ UNCHANGED <<pageVars, csVars, bgVars, srvVars>>

\* ensureTemporaryChatActive(startNewChat, useTemporaryChat); newChatButton,
\* tempChatButton: the page has the button.  clicked: the buttons it clicks.
EnsureTemporaryChatActive(newChatButton, tempChatButton) ==
    /\ call.fn = "ensureTemporaryChatActive"
    /\ call' = [fn |-> "ensured", input |-> call.input,
                startNewChat |-> call.startNewChat,
                useTemporaryChat |-> call.useTemporaryChat,
                buttons |-> <<newChatButton, tempChatButton>>,
                clicked |->
                    (IF Truthy(call.startNewChat) /\ newChatButton
                     THEN {"create-new-chat-button"} ELSE {})
                    \cup (IF Truthy(call.useTemporaryChat) /\ tempChatButton
                          THEN {"temp-chat-button"} ELSE {})]
    /\ UNCHANGED <<pageVars, csVars, bgVars, srvVars>>

InitFlags ==
    /\ call \in {[fn |-> "onmessage", input |-> data] : data \in Payloads}
    /\ IdleContent(<<>>)
    /\ dom = EmptyChat
    /\ InitBackground(<<"none", "none">>)
    /\ IdleServer

NextFlags ==
    \/ ForwardData
    \/ ReadFlags
    \/ \E newChatButton, tempChatButton \in BOOLEAN :
           EnsureTemporaryChatActive(newChatButton, tempChatButton)

SpecFlags == InitFlags /\ [][NextFlags]_vars

(***************************************************************************)
(* The image of a reply: from the fetch in downloadImageAsBase64 to the    *)
(* result message the server gets.  Strings are sequences of characters,   *)
(* the image is a sequence of bytes.                                       *)
(***************************************************************************)
\* Length of the images that are followed, in bytes.
MaxBytes == 3

\* The bytes an image is made of.
ByteValues == {0, 77, 255}

RECURSIVE SeqsUpTo(_, _)
SeqsUpTo(S, n) ==
    IF n = 0 THEN {<<>>}
    ELSE LET shorter == SeqsUpTo(S, n - 1)
         IN  shorter \cup {Append(q, x) : q \in shorter, x \in S}

Images == SeqsUpTo(ByteValues, MaxBytes)

\* The types a fetched blob can have (Content-Type of the response).
BlobTypes ==
    { <<"i", "m", "a", "g", "e", "/", "p", "n", "g">>,
      <<"i", "m", "a", "g", "e", "/", "w", "e", "b", "p">>,
      <<"i", "m", "a", "g", "e", "/", "s", "v", "g", "+", "x", "m", "l">>,
      <<"i", "m", "a", "g", "e", "/", "x", "-", "i", "c", "o", "n">>,
      <<"b", "i", "n", "a", "r", "y", "/", "o", "c", "t", "e", "t", "-", "s", "t", "r", "e", "a", "m">> }

Base64Alphabet == <<
    "A", "B", "C", "D", "E", "F", "G", "H", "I", "J", "K", "L", "M", "N", "O", "P",
    "Q", "R", "S", "T", "U", "V", "W", "X", "Y", "Z", "a", "b", "c", "d", "e", "f",
    "g", "h", "i", "j", "k", "l", "m", "n", "o", "p", "q", "r", "s", "t", "u", "v",
    "w", "x", "y", "z", "0", "1", "2", "3", "4", "5", "6", "7", "8", "9", "+", "/" >>

\* FileReader.readAsDataURL: the base64 encoding of a sequence of bytes.
RECURSIVE Base64(_)
Base64(bytes) ==
    IF bytes = <<>> THEN <<>>
    ELSE IF Len(bytes) = 1
    THEN LET n == bytes[1] * 16
         IN  <<Base64Alphabet[(n \div 64) + 1], Base64Alphabet[(n % 64) + 1], "=", "=">>
    ELSE IF Len(bytes) = 2
    THEN LET n == (bytes[1] * 256 + bytes[2]) * 4
         IN  <<Base64Alphabet[(n \div 4096) + 1], Base64Alphabet[((n \div 64) % 64) + 1],
               Base64Alphabet[(n % 64) + 1], "=">>
    ELSE LET n == bytes[1] * 65536 + bytes[2] * 256 + bytes[3]
         IN  <<Base64Alphabet[(n \div 262144) + 1],
               Base64Alphabet[((n \div 4096) % 64) + 1],
               Base64Alphabet[((n \div 64) % 64) + 1],
               Base64Alphabet[(n % 64) + 1]>> \o Base64(SubSeq(bytes, 4, Len(bytes)))

\* reader.result: 'data:' type ';base64,' data
DataUrl(type, bytes) ==
    <<"d", "a", "t", "a", ":">> \o type \o <<";", "b", "a", "s", "e", "6", "4", ",">> \o Base64(bytes)

\* The characters \w matches.
WordChars == {
    "A", "B", "C", "D", "E", "F", "G", "H", "I", "J", "K", "L", "M", "N", "O", "P",
    "Q", "R", "S", "T", "U", "V", "W", "X", "Y", "Z", "a", "b", "c", "d", "e", "f",
    "g", "h", "i", "j", "k", "l", "m", "n", "o", "p", "q", "r", "s", "t", "u", "v",
    "w", "x", "y", "z", "0", "1", "2", "3", "4", "5", "6", "7", "8", "9", "_" }

StartsWith(t, prefix) == Len(t) >= Len(prefix) /\ SubSeq(t, 1, Len(prefix)) = prefix

\* The number of characters of \w at the start of t.
RECURSIVE WordRun(_)
WordRun(t) == IF t # <<>> /\ Head(t) \in WordChars THEN 1 + WordRun(Tail(t)) ELSE 0

\* result.replace(/^data:image\/\w+;base64,/, '')
stripDataUrlPrefix(result) ==
    LET head == <<"d", "a", "t", "a", ":", "i", "m", "a", "g", "e", "/">>
        mark == <<";", "b", "a", "s", "e", "6", "4", ",">>
        rest == SubSeq(result, Len(head) + 1, Len(result))
        after == SubSeq(rest, WordRun(rest) + 1, Len(rest))
    IN  IF StartsWith(result, head) /\ WordRun(rest) > 0 /\ StartsWith(after, mark)
        THEN SubSeq(after, Len(mark) + 1, Len(after))
        ELSE result

\* The object extractGeneratedImage returns.
GeneratedImage(base64) == [kind |-> "image", base64 |-> base64]

\* await fetch(imageUrl): a response that is not ok makes
\* downloadImageAsBase64 throw and extractGeneratedImage return null.
FetchDone(ok) ==
    /\ call.fn = "fetch"
    /\ call' = IF ok
               THEN [call EXCEPT !.fn = "readAsDataURL"]
               ELSE [fn |-> "extractGeneratedImage", bytes |-> call.bytes,
                     type |-> call.type, generatedImage |-> NoImage]
    /\ UNCHANGED <<pageVars, csVars, bgVars, srvVars>>

\* reader.onloadend: the prefix is cut off the data URL and
\* extractGeneratedImage returns the image object.
ReaderLoadEnd ==
    /\ call.fn = "readAsDataURL"
    /\ call' = [fn |-> "extractGeneratedImage", bytes |-> call.bytes, type |-> call.type,
                generatedImage |->
                    GeneratedImage(stripDataUrlPrefix(DataUrl(call.type, call.bytes)))]
    /\ UNCHANGED <<pageVars, csVars, bgVars, srvVars>>

\* The check builds the success response and calls the callback, which
\* hands its message to chrome.runtime.sendMessage.
ImageCallback ==
    /\ call.fn = "extractGeneratedImage"
    /\ call.generatedImage # NoImage
    /\ LET after == sendResponseCallback(CS, 1, SuccessResponse(1, TextA, call.generatedImage))
       IN  call' = [fn |-> "sendResponseCallback", bytes |-> call.bytes, type |-> call.type,
                    message |-> after.rtQueue[Len(after.rtQueue)]]
    /\ UNCHANGED <<pageVars, csVars, bgVars, srvVars>>

\* The runtime listener builds the message for the server.
ImageForward ==
    /\ call.fn = "sendResponseCallback"
    /\ call' = [fn |-> "websocket.send", bytes |-> call.bytes, type |-> call.type,
                sent |-> serverMessage(call.message)]
    /\ UNCHANGED <<pageVars, csVars, bgVars, srvVars>>

InitImage ==
    /\ call \in {[fn |-> "fetch", bytes |-> bytes, type |-> type] :
                    bytes \in Images, type \in BlobTypes}
    /\ IdleContent(<<>>)
    /\ dom = EmptyChat
    /\ InitBackground(<<"none", "none">>)
    /\ IdleServer

NextImage ==
    \/ \E ok \in BOOLEAN : FetchDone(ok)
    \/ ReaderLoadEnd
    \/ ImageCallback
    \/ ImageForward

SpecImage == InitImage /\ [][NextImage]_vars

(***************************************************************************)
(* pasteImageIntoChat, followed on its own.  The image is the string the   *)
(* prompt message carries; each injection method has an effect on the      *)
(* number of attached images the page shows.                               *)
(***************************************************************************)
\* The injection methods in the order of the code.
Methods == <<"dragDrop", "fileInput", "clipboard">>

\* What a method does to the page: the image is attached while the method's
\* wait runs ("now"), only after that wait ("late"), not at all ("never"), or
\* the method throws; the clipboard method also throws when the window gets
\* no focus (waitForUserFocus rejects).
Effects(m) ==
    IF m = 3 THEN {"now", "late", "never", "noFocus"}
    ELSE {"now", "late", "never", "throws"}

\* The strings a prompt message can carry as its image.
ImageStrings ==
    { Base64(<<77, 0>>),
      <<"%">>,
      DataUrl(<<"i", "m", "a", "g", "e", "/", "p", "n", "g">>, <<77, 0>>),
      DataUrl(<<"i", "m", "a", "g", "e", "/", "s", "v", "g", "+", "x", "m", "l">>, <<77, 0>>) }

\* atob(base64Data) throws for a character outside the base64 alphabet.
atobThrows(t) ==
    \E i \in 1..Len(t) : \A j \in 1..Len(Base64Alphabet) : t[i] # Base64Alphabet[j] /\ t[i] # "="

\* A variant that is satisfied by any attached image.
anyImageAttached(count, initialCount) == count > 0

\* waitForImageCountIncrease: currentCount > initialCount within the wait.
waitForImageCountIncrease(count, initialCount) == count > initialCount

\* pasteImageIntoChat up to its first await.
PasteStart ==
    /\ call.fn = "pasteImageIntoChat"
    /\ call.stage = 0
    /\ call' = IF atobThrows(stripDataUrlPrefix(call.image))
               THEN [call EXCEPT !.result = "throws"]
               ELSE [call EXCEPT !.stage = 1, !.initialImageCount = call.count]
    /\ UNCHANGED <<pageVars, csVars, bgVars, srvVars>>

\* Method m is carried out and its wait for the image count ends.  Images
\* of earlier methods that come late are attached during this wait; a method
\* that throws is left without a wait, and count is then the count last seen.
TryMethod(m) ==
    /\ call.fn = "pasteImageIntoChat"
    /\ call.stage = m
    /\ call.result = "pending"
    /\ LET effect == call.effects[m]
           waited == effect \notin {"throws", "noFocus"}
           count == IF waited
                    THEN call.count + call.late + (IF effect = "now" THEN 1 ELSE 0)
                    ELSE call.count
           tried == Append(call.tried, [method |-> Methods[m], count |-> count])
           next == [call EXCEPT !.tried = tried, !.count = count,
                                !.late = IF ~waited THEN call.late
                                         ELSE IF effect = "late" THEN 1 ELSE 0]
       IN  call' = IF waited /\ waitForImageCountIncrease(count, call.initialImageCount)
                   THEN [next EXCEPT !.result = "true"]
                   ELSE IF m = Len(Methods)
                   THEN [next EXCEPT !.result = "throws"]
                   ELSE [next EXCEPT !.stage = m + 1]
    /\ UNCHANGED <<pageVars, csVars, bgVars, srvVars>>

InitPaste ==
    /\ call \in {[fn |-> "pasteImageIntoChat", image |-> image, effects |-> <<e1, e2, e3>>,
                   stage |-> 0, tried |-> <<>>, count |-> count, initialImageCount |-> 0,
                   late |-> 0, result |-> "pending"] :
                    image \in ImageStrings, e1 \in Effects(1), e2 \in Effects(2),
                    e3 \in Effects(3), count \in {0, 1}}
    /\ IdleContent(<<>>)
    /\ dom = EmptyChat
    /\ InitBackground(<<"none", "none">>)
    /\ IdleServer

NextPaste ==
    \/ PasteStart
    \/ \E m \in 1..Len(Methods) : TryMethod(m)

SpecPaste == InitPaste /\ [][NextPaste]_vars

(***************************************************************************)
(* Properties of one detector invocation.                                  *)
(***************************************************************************)
IsSuccess(r) == r.status = TextValue(<<"success">>)
HasSuccess(log) == \E i \in 1..Len(log) : IsSuccess(log[i])
HasSuccessText(log, text) ==
    \E i \in 1..Len(log) : IsSuccess(log[i]) /\ log[i].response = TextValue(text)

\* The step is a run of d's check: from its poll interval or its debounce timer.
IsCheckStep(d) == PollTick(d) \/ (responseTimeout.owner = d /\ DebounceFire)

\* The last n extractions are identical.
StableRun(w, n) ==
    /\ Len(w) >= n
    /\ \A i \in (Len(w) - n + 1)..Len(w) : w[i] = w[Len(w)]

\* A check step in which d's check found the content stable: it emitted
\* Success or went on to download the image.
ReachesStable(d) ==
    /\ IsCheckStep(d)
    /\ \/ BagCardinality(inflight'[d]) > BagCardinality(inflight[d])
       \/ /\ Len(callbackLog'[d]) > Len(callbackLog[d])
          /\ IsSuccess(callbackLog'[d][Len(callbackLog'[d])])

\* C3 (as claimed): within one invocation of startObservingResponses the
\* callback is invoked at most once.
C3_CallbackAtMostOnce == \A d \in Ids : Len(callbackLog[d]) <= 1

C6_PlaceholderResets ==
    [][\A d \in Ids :
         (IsCheckStep(d) /\ dom.count > initialAssistantCount[d] /\ dom.shimmer)
           => /\ lastResponseText'[d] = Null
              /\ stableCheckCount'[d] = 0
              /\ inflight'[d] = inflight[d]
              /\ \/ callbackLog'[d] = callbackLog[d]
                 \/ /\ callbackLog'[d] = Append(callbackLog[d], TimeoutResponse)
                    /\ timeoutAttempts'[d] >= MAX_TIMEOUT_ATTEMPTS]_vars

\* The page's second change made the newest message a placeholder that also
\* carries the final marker and an image, after one poll tick of detector 1,
\* and 1's debounced check has run on it: no text is recorded and nothing was
\* emitted.
C6_Witness ==
    /\ dom.shimmer /\ dom.lastNode /\ dom.container
    /\ dom.count > initialAssistantCount[1]
    /\ domChanges = MaxDomChanges
    /\ exec[1].stage = "observing"
    /\ responseTimeout = [owner |-> 1, pending |-> FALSE]
    /\ timeoutAttempts[1] = 1
    /\ lastResponseText[1] = Null
    /\ callbackLog[1] = <<>>

\* C7 (as claimed): while no check has reported a complete reply, the detector
\* emits the timeout outcome at the 60th poll tick, not before, and nothing
\* after it.
C7_TimeoutOnceAtSixty ==
    \A d \in Ids :
        ~HasSuccess(callbackLog[d])
          => /\ Len(callbackLog[d]) <= 1
             /\ callbackLog[d] # <<>> => timeoutAttempts[d] >= MAX_TIMEOUT_ATTEMPTS
             /\ (timeoutAttempts[d] >= MAX_TIMEOUT_ATTEMPTS /\ inflight[d] = EmptyBag)
                   => callbackLog[d] = <<TimeoutResponse>>

\* The reason of the error outcome the specification calls EmptyReply.
EmptyReplyReason == TextValue(<<"empty response">>)

\* C8 (as claimed): a check that finds the newest message with the final
\* marker, stable for the required number of checks, with no text and no
\* image, ends the detector with an error outcome whose reason says the
\* response is empty.
C8_EmptyReplyReported ==
    [][\A d \in Ids :
         (/\ IsCheckStep(d)
          /\ dom.count > initialAssistantCount[d]
          /\ ~dom.shimmer /\ dom.markdown /\ dom.lastNode /\ ~dom.container
          /\ Len(Trim(dom.text)) = 0
          /\ lastResponseText[d] = dom.text
          /\ stableCheckCount'[d] >= STABLE_CHECKS_REQUIRED)
           => /\ Len(callbackLog'[d]) = Len(callbackLog[d]) + 1
              /\ callbackLog'[d][Len(callbackLog'[d])].status = TextValue(<<"error">>)
              /\ callbackLog'[d][Len(callbackLog'[d])].reason = EmptyReplyReason
              /\ ~pollInterval'[d]]_vars

(***************************************************************************)
(* Properties of two prompts in one tab.                                   *)
(***************************************************************************)
\* The step starts d's detector, or d's detector emits an outcome in it.
StartsOrFinishes(d) ==
    \/ exec[d].stage # "observing" /\ exec'[d].stage = "observing"
    \/ Len(callbackLog'[d]) > Len(callbackLog[d])

\* d's observer is connected.
Connected(obs, d) == \E i \in 1..Len(obs) : obs[i] = d

\* C4 (as claimed): with two prompts in one tab, a step that starts or
\* finishes the detector of one request leaves the other's observer, debounce
\* timer and poll interval as they are, and the finished request has exactly
\* one outcome and nothing of it left running.
C4_Independent ==
    [][\A d, e \in Ids :
         (d # e /\ StartsOrFinishes(d))
           => /\ pollInterval'[e] = pollInterval[e]
              /\ Connected(observers', e) = Connected(observers, e)
              /\ responseTimeout.owner = e => responseTimeout' = responseTimeout
              /\ Len(callbackLog'[d]) <= 1
              /\ Len(callbackLog'[d]) = 1
                    => ~pollInterval'[d] /\ ~Connected(observers', d)]_vars

(***************************************************************************)
(* Properties of the extension.                                            *)
(***************************************************************************)
\* The 'response' messages with id d the server has received.
ResponsesFor(sent, d) ==
    Len(SelectSeq(sent, LAMBDA m : m.type = "response" /\ m.id = d))

\* The content script has nothing left to do for d.
ContentDone(d) ==
    \/ exec[d].stage = "failed"
    \/ /\ exec[d].stage = "observing"
       /\ callbackLog[d] # <<>>
       /\ ~pollInterval[d]
       /\ inflight[d] = EmptyBag

\* The handling of prompt d has come to its end in both scripts.
Finished(d) ==
    \/ bg[d].stage = "failed"
    \/ /\ bg[d].stage = "delivered"
       /\ \A i \in 1..Len(inbox) : inbox[i].id # d
       /\ ContentDone(d)
       /\ \A i \in 1..Len(rtQueue) : rtQueue[i].id # d

\* C2 (as claimed): for every prompt the extension received, the server
\* receives at most one 'response' message with its id, and exactly one once
\* the handling of the prompt has ended, whatever path it took.
C2_ExactlyOneResponse ==
    \A d \in Ids :
        /\ ResponsesFor(wsSent, d) <= 1
        /\ Finished(d) => ResponsesFor(wsSent, d) = 1

(***************************************************************************)
(* Properties of the relay server.                                         *)
(***************************************************************************)
Outcome(kind, at) == [kind |-> kind, at |-> at]

\* The identifiers of the requests the Dispatcher accepted.
AcceptedIds == {request[r].id : r \in {q \in Requests : request[q].id # 0}}

\* C1: a request submitted while the gateway is open gets exactly one outcome
\* (success, error or timeout), eventually and no later than the 120-second
\* deadline, whatever the extension replies and however the connection
\* drops; once it is delivered no Pending Handle of its id is left.
C1_OneOutcomeByDeadline ==
    /\ [](\A r \in Requests :
            /\ Len(outcomes[r]) <= 1
            /\ request[r].state = "waiting"
                  => /\ outcomes[r] = <<>>
                     /\ Len(HandlesOf(store, request[r].id)) = 1
                     /\ HandlesOf(store, request[r].id)[1].elapsed <= DEADLINE_SECONDS
            /\ (request[r].state = "returned" /\ request[r].id # 0)
                  => /\ Len(outcomes[r]) = 1
                     /\ outcomes[r][1].kind \in {"Success", "Error", "Timeout"}
                     /\ outcomes[r][1].at <= DEADLINE_SECONDS
                     /\ HandlesOf(store, request[r].id) = <<>>)
    /\ \A r \in Requests :
           (request[r].state = "waiting") ~> (request[r].state = "returned")

\* The connection dropped and stayed down; the caller got the timeout at the deadline.
C1_Witness ==
    /\ request[1] = [state |-> "returned", id |-> 1]
    /\ outcomes[1] = <<Outcome("Timeout", DEADLINE_SECONDS)>>
    /\ gateway = "closed"
    /\ received = {}

\* C9: a request submitted while the gateway is not open fails at once with
\* GatewayUnavailable: no Pending Handle is registered, nothing is sent or
\* queued, and no instruction for it reaches the extension later.
C9_ClosedGatewayRejects ==
    /\ [][\A r \in Requests :
            (submit(r) /\ gateway # "open")
               => /\ outcomes'[r] = <<Outcome("GatewayUnavailable", 0)>>
                  /\ request'[r] = [state |-> "returned", id |-> 0]
                  /\ store' = store
                  /\ toExt' = toExt
                  /\ fromExt' = fromExt]_vars
    /\ [](/\ {toExt[i] : i \in 1..Len(toExt)} \subseteq AcceptedIds
          /\ received \subseteq AcceptedIds
          /\ {store[i].id : i \in 1..Len(store)} \subseteq AcceptedIds
          /\ \A r \in Requests :
                (outcomes[r] # <<>> /\ outcomes[r][1].kind = "GatewayUnavailable")
                   => request[r].id = 0)

\* Caller 1 was rejected; after a reconnection caller 2's request went out and
\* is the only instruction the extension has received.
C9_Witness ==
    /\ outcomes[1] = <<Outcome("GatewayUnavailable", 0)>>
    /\ request[2] = [state |-> "waiting", id |-> 1]
    /\ gateway = "open"
    /\ received = {1}
    /\ Len(store) = 1

\* C10: when a result and the deadline of its id race, the caller gets the
\* outcome of the one that comes first and the other is discarded: a resolve
\* that finds the handle delivers its outcome and removes the handle, a
\* resolve that finds none changes nothing, an expiry delivers the timeout and
\* removes the handle; no caller gets two outcomes and no id has two handles.
C10_FirstWins ==
    /\ [](/\ \A id \in 1..MaxRequests : Len(HandlesOf(store, id)) <= 1
          /\ \A r \in Requests : Len(outcomes[r]) <= 1)
    /\ [][resolve =>
            LET m == Head(fromExt)
                hs == HandlesOf(store, m.id)
            IN  IF hs # <<>>
                THEN /\ outcomes' = [outcomes EXCEPT ![hs[1].caller] =
                                        <<Outcome(m.kind, hs[1].elapsed)>>]
                     /\ HandlesOf(store', m.id) = <<>>
                     /\ Len(store') = Len(store) - 1
                ELSE outcomes' = outcomes /\ store' = store /\ request' = request]_vars
    /\ [][\A id \in 1..MaxRequests :
            expire(id) =>
               LET h == HandlesOf(store, id)[1]
               IN  /\ outcomes' = [outcomes EXCEPT ![h.caller] =
                                      <<Outcome("Timeout", DEADLINE_SECONDS)>>]
                   /\ HandlesOf(store', id) = <<>>
                   /\ Len(store') = Len(store) - 1]_vars

\* The deadline of id 1 came first: its caller got the timeout, and the result
\* that arrived after it found no handle.
C10_Witness ==
    /\ outcomes[1] = <<Outcome("Timeout", DEADLINE_SECONDS)>>
    /\ resolveLog = {[id |-> 1, found |-> FALSE]}
    /\ store = <<>>

\* C11: resolve for an id with no pending handle (never registered, already
\* resolved or already expired) returns false and changes nothing: the store,
\* every pending handle, the callers and their outcomes stay as they are.
C11_ResolveNoHandleIsNoOp ==
    [][(resolve /\ \A i \in 1..Len(store) : store[i].id # Head(fromExt).id)
         => /\ [id |-> Head(fromExt).id, found |-> FALSE] \in resolveLog'
            /\ [id |-> Head(fromExt).id, found |-> TRUE] \in resolveLog'
                  => [id |-> Head(fromExt).id, found |-> TRUE] \in resolveLog
            /\ store' = store
            /\ outcomes' = outcomes
            /\ request' = request
            /\ nextId' = nextId]_vars

\* A duplicate of id 1's result was discarded while the handle of id 2 was
\* pending; that handle is still there.
C11_Witness ==
    /\ resolveLog = {[id |-> 1, found |-> TRUE], [id |-> 1, found |-> FALSE]}
    /\ Len(store) = 1
    /\ store[1].id = 2
    /\ request[2].state = "waiting"

C13_DelayGrows ==
    \A i \in 2..Len(attemptDelays) : attemptDelays[i] >= 2 * attemptDelays[i - 1]

\* C14: when chrome.tabs.create fails for the prompt d, that step sends the
\* error result with the id d to the server and ends the handling: the
\* prompt is not forwarded to a tab, and d gets no further result.
C14_CreateFailureReported ==
    [][\A d \in Ids :
          tabsCreateDone(d, FALSE)
             => /\ wsSent' = Append(wsSent, errorResponse(d, <<"Failed to create ChatGPT tab.">>))
                /\ ResponsesFor(wsSent', d) = 1
                /\ inbox' = inbox
                /\ bg'[d].stage = "failed"]_vars

CarriesErrorStatus(data) ==
    \/ data.status = TextValue(<<"error">>)
    \/ data.response.kind = "object" /\ data.response.status = "error"

\* The data of a result message holds a reason string, as the response
\* itself or in the object passed as response.
CarriesReason(data) == data.response.kind \in {"text", "object"}

\* C16: every result message the server gets that is not a success carries
\* the id of the request, the status 'error' and a reason string.
C16_ErrorsCarryReason ==
    \A i \in 1..Len(wsSent) :
        (wsSent[i].type = "response" /\ wsSent[i].data.status # TextValue(<<"success">>))
            => /\ wsSent[i].id = 1
               /\ CarriesErrorStatus(wsSent[i].data)
               /\ CarriesReason(wsSent[i].data)

\* The error responses the background script sends for d on its own.
OwnErrors(d) ==
    {errorResponse(d, <<"Failed to create ChatGPT tab.">>),
     errorResponse(d, <<"Could not connect to the content script. The page may still be loading.">>)}

\* C17: every 'response' message the server gets carries the id of a
\* 'prompt' message the extension received, and of the one that caused it:
\* an error response of the background script has the id of a prompt whose
\* handling failed, any other response the id of a prompt that was delivered
\* to the content script and taken up there.
C17_ResponseIdIsPromptId ==
    \A i \in 1..Len(wsSent) :
        wsSent[i].type = "response"
            => /\ wsSent[i].id \in Ids
               /\ bg[wsSent[i].id].stage # "none"
               /\ IF wsSent[i] \in OwnErrors(wsSent[i].id)
                  THEN bg[wsSent[i].id].stage = "failed"
                  ELSE /\ bg[wsSent[i].id].stage = "delivered"
                       /\ exec[wsSent[i].id].stage # "none"

\* Two prompts are in flight; the one received second has been answered, the
\* other has not.
C17_Witness ==
    /\ Len(wsSent) = 1
    /\ wsSent[1].type = "response"
    /\ wsSent[1].id = 2
    /\ bg[1].stage = "delivered"
    /\ exec[1].stage = "observing"
    /\ rtQueue = <<>>

\* C18: once the detector of d has reported an outcome, its MutationObserver
\* is disconnected, its poll interval is cleared and no debounce timer of
\* its is pending, so that no further check of d is scheduled.
C18_TornDownAfterOutcome ==
    \A d \in Ids :
        callbackLog[d] # <<>>
            => /\ ~Connected(observers, d)
               /\ ~pollInterval[d]
               /\ ~(responseTimeout.pending /\ responseTimeout.owner = d)

\* C19: the keep-alive interval has the period of 20000 ms and exists only
\* while the socket is OPEN; a tick whose send succeeds sends one 'ping'
\* control message, a tick whose send throws sends nothing and logs the
\* failure; either way the interval keeps running and the socket, the
\* reconnect timer and the handling of the prompts stay as they are.
C19_KeepAliveWhileOpen ==
    /\ [](keepAliveInterval # 0 => keepAliveInterval = 20000 /\ websocket = "OPEN")
    /\ [][\A throws \in BOOLEAN :
              KeepAliveTick(throws)
                 => /\ websocket = "OPEN"
                    /\ wsSent' = IF throws THEN wsSent ELSE Append(wsSent, PingMessage)
                    /\ throws => "Failed to send keep-alive:" \in console'
                    /\ keepAliveInterval' = keepAliveInterval
                    /\ UNCHANGED <<websocket, reconnectTimer, bg, tab, inbox>>]_vars

\* A keep-alive send has failed and was logged; the socket is still open and
\* the interval still runs.
C19_Witness ==
    /\ "Failed to send keep-alive:" \in console
    /\ websocket = "OPEN"
    /\ keepAliveInterval = KEEP_ALIVE_MS
    /\ attemptDelays = <<>>
    /\ reconnectTimer = <<>>

\* The message events that are not a 'prompt': control messages and data
\* that is not JSON.
OtherEvents == {ControlEvent(d) : d \in Ids} \cup {GarbledEvent}

\* C20: a message from the server that is not a 'prompt', or that cannot be
\* parsed, is only logged: no tab is queried, created or focused, nothing is
\* forwarded to a tab, nothing is sent to the server, and the socket, the
\* keep-alive interval and the reconnect timer stay as they are.
C20_OtherMessagesIgnored ==
    [][\A event \in OtherEvents :
          onmessage(event)
             => /\ UNCHANGED <<bg, tab, inbox, rtQueue, wsSent>>
                /\ UNCHANGED <<websocket, keepAliveInterval, reconnectTimer>>
                /\ console' # {}]_vars

\* A control message and an unparseable one have been received on the open
\* socket before any prompt.
C20_Witness ==
    /\ "Received unknown message type from server:" \in console
    /\ "Failed to parse WebSocket message:" \in console
    /\ websocket = "OPEN"
    /\ keepAliveInterval = KEEP_ALIVE_MS
    /\ \A d \in Ids : bg[d].stage = "none"
    /\ wsSent = <<>>

\* The detector of d has reported its timeout.
TimedOut(d) == \E i \in 1..Len(callbackLog[d]) : callbackLog[d][i] = TimeoutResponse

C22_DropResolvesNothing ==
    /\ [][(gateway # "closed" /\ gateway' = "closed")
            => store' = store /\ outcomes' = outcomes /\ request' = request]_vars
    /\ [][(gateway' = "closed" /\ store' # store /\ Len(store') < Len(store))
            => \E id \in 1..MaxRequests : expire(id) /\ deadlineElapsed(HandlesOf(store, id)[1])]_vars

\* The connection has dropped while a caller waits; its handle is still
\* pending and time has passed on it.
C22_Witness ==
    /\ gateway = "closed"
    /\ Len(store) = 1
    /\ store[1].elapsed > 0
    /\ store[1].elapsed < DEADLINE_SECONDS
    /\ request[store[1].caller].state = "waiting"
    /\ received # {}

\* C23: the Gateway uses one connection at most, and it is the newest one
\* accepted: accepting an inbound connection makes it the one in use in
\* place of the prior one, and every instruction is sent over the
\* connection that is the newest at that moment.
C23_NewestConnectionOnly ==
    /\ [](current \in {0, accepted} /\ (gatewayIsOpen(gateway) <=> current # 0))
    /\ [][accepted' # accepted => accepted' = accepted + 1 /\ current' = accepted']_vars
    /\ [][\A r \in Requests :
              (submit(r) /\ request'[r].state = "waiting")
                 => sentVia' = sentVia \cup {[id |-> nextId, via |-> accepted]}]_vars

\* The first instruction went over the first connection; a second
\* connection has superseded it and the second instruction went over that.
C23_Witness ==
    /\ accepted = 2
    /\ current = 2
    /\ sentVia = {[id |-> 1, via |-> 1], [id |-> 2, via |-> 2]}
    /\ Len(store) = 2

\* The flag the payload of the followed call gave, Undefined when absent.
GivenFlag(name) ==
    IF call.input.kind = "string" THEN Undefined
    ELSE IF name = "startNewChat" THEN call.input.startNewChat
    ELSE call.input.useTemporaryChat

\* C24: execute_prompt takes startNewChat and useTemporaryChat for true when
\* the payload does not hold them and keeps the value the payload gives
\* (false and null included) when it does; a string payload is the prompt
\* with both flags true; ensureTemporaryChatActive clicks a button only when
\* its flag is true.
C24_FlagsDefaultTrue ==
    call.fn \in {"ensureTemporaryChatActive", "ensured"}
        => /\ call.startNewChat =
                 IF GivenFlag("startNewChat") = Undefined THEN BoolValue(TRUE)
                 ELSE GivenFlag("startNewChat")
           /\ call.useTemporaryChat =
                 IF GivenFlag("useTemporaryChat") = Undefined THEN BoolValue(TRUE)
                 ELSE GivenFlag("useTemporaryChat")
           /\ call.input.kind = "string"
                 => call.startNewChat = BoolValue(TRUE) /\ call.useTemporaryChat = BoolValue(TRUE)
           /\ call.fn = "ensureTemporaryChatActive" /\ call.input.kind = "string"
                 => call.prompt = TextValue(call.input.text)
           /\ call.fn = "ensured"
                 => /\ "create-new-chat-button" \in call.clicked
                          <=> call.startNewChat = BoolValue(TRUE) /\ call.buttons[1]
                    /\ "temp-chat-button" \in call.clicked
                          <=> call.useTemporaryChat = BoolValue(TRUE) /\ call.buttons[2]

\* A payload with startNewChat false and no useTemporaryChat: no new chat is
\* created and the temporary chat is switched on.
C24_Witness ==
    /\ call.fn = "ensured"
    /\ call.input.kind = "object"
    /\ call.input.startNewChat = BoolValue(FALSE)
    /\ call.input.useTemporaryChat = Undefined
    /\ call.buttons = <<TRUE, TRUE>>
    /\ call.clicked = {"temp-chat-button"}

\* C25: the base64 string of a reply's image is the encoding of the bytes
\* that were fetched, with nothing of the data URL's prefix left, from the
\* object extractGeneratedImage returns to the message the server gets.
C25_PayloadIsEncodedBytes ==
    /\ (call.fn = "extractGeneratedImage" /\ call.generatedImage # NoImage)
          => call.generatedImage.base64 = Base64(call.bytes)
    /\ call.fn = "sendResponseCallback"
          => call.message.generatedImage.base64 = Base64(call.bytes)
    /\ call.fn = "websocket.send"
          => call.sent.data.generatedImage.base64 = Base64(call.bytes)

\* C26: every invocation of startObservingResponses ends in a call of
\* sendResponseCallback.  A detector that has not called it yet must still
\* have something that can: its poll interval, its observer, the debounce
\* timer set for it, or a check of it suspended in the image download.
C26_DetectorCanStillAnswer ==
    \A d \in Ids :
        (exec[d].stage = "observing" /\ callbackLog[d] = <<>>)
            => \/ pollInterval[d]
               \/ \E i \in DOMAIN observers : observers[i] = d
               \/ responseTimeout.pending /\ responseTimeout.owner = d
               \/ inflight[d] # EmptyBag

\* The step emits Success for d.
EmitsSuccess(d) ==
    /\ Len(callbackLog'[d]) > Len(callbackLog[d])
    /\ IsSuccess(callbackLog'[d][Len(callbackLog'[d])])

\* C27: a check that finds no more assistant messages than the baseline
\* recorded at the start of the observation emits no Success and leaves
\* lastResponseText and stableCheckCount as they were, so a reply that was on
\* the page before the prompt was sent is never returned as the answer.
C27_BaselineNeverAnswers ==
    [][\A d \in Ids :
          (IsCheckStep(d) /\ dom.count <= initialAssistantCount[d])
              => /\ ~EmitsSuccess(d)
                 /\ inflight'[d] = inflight[d]
                 /\ lastResponseText'[d] = lastResponseText[d]
                 /\ stableCheckCount'[d] = stableCheckCount[d]]_vars

\* The old reply is still the last message after polls of the detector.
C27_Witness ==
    /\ dom = OldReply
    /\ domChanges = 0
    /\ initialAssistantCount[1] = 1
    /\ timeoutAttempts[1] >= STABLE_CHECKS_REQUIRED + 1
    /\ lastResponseText[1] = Null
    /\ callbackLog[1] = <<>>

\* C28: a check finds the content stable (and emits Success, or downloads the
\* image and then does) only when the new message carries markdown with the
\* data-is-last-node marker or an image-generation container; a check that
\* finds a new message with neither sets lastResponseText back to null and
\* stableCheckCount back to 0.
C28_OnlyMarkedMessagesAnswer ==
    [][\A d \in Ids :
          /\ ReachesStable(d) => ((dom.markdown /\ dom.lastNode) \/ dom.container)
          /\ ( /\ IsCheckStep(d)
               /\ dom.count > initialAssistantCount[d]
               /\ ~((dom.markdown /\ dom.lastNode) \/ dom.container) )
                => lastResponseText'[d] = Null /\ stableCheckCount'[d] = 0]_vars

\* Success for the marked reply "AB", after the page changed twice.
C28_Witness ==
    /\ dom = Page(2, TRUE, FALSE, TRUE, FALSE, FALSE, TextAB)
    /\ domChanges = MaxDomChanges
    /\ HasSuccessText(callbackLog[1], TextAB)

\* C29: every Success carries a text that is not empty after trimming or a
\* generated image; when the image download of a stable message without
\* text fails, the check emits no Success and leaves lastResponseText and
\* stableCheckCount as they are, so the detector goes on waiting.
C29_SuccessIsNeverEmpty ==
    /\ [](\A d \in Ids : \A i \in 1..Len(callbackLog[d]) :
             IsSuccess(callbackLog[d][i])
                 => \/ Len(Trim(callbackLog[d][i].response.text)) > 0
                    \/ callbackLog[d][i].generatedImage # Undefined)
    /\ [][\A d \in Ids :
             (\E f \in BagToSet(inflight[d]) :
                  f.frame.textLength = 0 /\ DownloadDone(d, f, FALSE))
                 => /\ ~EmitsSuccess(d)
                    /\ lastResponseText'[d] = lastResponseText[d]
                    /\ stableCheckCount'[d] = stableCheckCount[d]]_vars

\* An image container without text whose image is not there: the content has
\* been stable for more checks than required and nothing has been emitted.
C29_Witness ==
    /\ dom = Page(2, FALSE, FALSE, FALSE, TRUE, FALSE, TextEmpty)
    /\ stableCheckCount[1] > STABLE_CHECKS_REQUIRED
    /\ inflight[1] = EmptyBag
    /\ pollInterval[1]
    /\ callbackLog[1] = <<>>

\* The methods tried so far are the first ones of the code's order, and
\* every one before the last found the image count not increased.
TriedInOrder ==
    /\ Len(call.tried) <= Len(Methods)
    /\ \A i \in 1..Len(call.tried) : call.tried[i].method = Methods[i]
    /\ \A i \in 1..(Len(call.tried) - 1) : call.tried[i].count <= call.initialImageCount

\* Success is returned at a method after which the count had increased.
SuccessAtFirstIncrease ==
    call.result = "true"
        => /\ call.tried # <<>>
           /\ call.tried[Len(call.tried)].count > call.initialImageCount

\* C30 (as claimed): the methods are tried in the order drag-and-drop, file
\* input, clipboard, a later one only after the earlier ones did not increase
\* the count; success is returned at the first method after which the count
\* increased, and failure is raised only after all three have failed.
C30_FailureOnlyAfterAllMethods ==
    call.fn = "pasteImageIntoChat"
        => /\ TriedInOrder
           /\ SuccessAtFirstIncrease
           /\ call.result = "throws" => Len(call.tried) = Len(Methods)

\* C30 (amended): as claimed, but failure is also raised before any method
\* is tried, when the image string is not base64 once the prefix
\* data:image/<word>;base64, has been cut off.
C30_FailureAfterAllMethodsOrBadImage ==
    call.fn = "pasteImageIntoChat"
        => /\ TriedInOrder
           /\ SuccessAtFirstIncrease
           /\ call.result = "throws"
                => \/ /\ Len(call.tried) = Len(Methods)
                      /\ \/ call.tried[Len(Methods)].count <= call.initialImageCount
                         \/ call.effects[Len(Methods)] = "noFocus"
                   \/ /\ call.tried = <<>>
                      /\ atobThrows(stripDataUrlPrefix(call.image))

\* Drag-and-drop threw, the file input did nothing, the clipboard attached
\* the image to a chat that already showed one.
C30_Witness ==
    /\ call.fn = "pasteImageIntoChat"
    /\ call.result = "true"
    /\ call.effects = <<"throws", "never", "now">>
    /\ call.initialImageCount = 1
    /\ Len(call.tried) = Len(Methods)

\* The content script has reported for d that the input element is missing
\* or that the image could not be pasted.
PreSendFailure(d) ==
    \E i \in 1..Len(rtQueue) :
        rtQueue[i] \in {ErrorMessage(d, "Could not find page input element."),
                        ErrorMessage(d, "Failed to paste image")}

\* C31: when the input element is missing or the image cannot be pasted, the
\* request stops there: the error is reported from a handler that has not yet
\* injected the prompt, and afterwards the handler stays stopped, no send
\* button poll runs and no detector is started for the request.
C31_FailureStopsRequest ==
    /\ [](\A d \in Ids :
             PreSendFailure(d)
                 => /\ exec[d].stage = "failed"
                    /\ attempts[d] = 0
                    /\ ~pollInterval[d]
                    /\ timeoutAttempts[d] = 0
                    /\ responseObserver # d
                    /\ \A i \in DOMAIN observers : observers[i] # d
                    /\ callbackLog[d] = <<>>)
    /\ [][\A d \in Ids :
             (~PreSendFailure(d) /\ PreSendFailure(d)')
                 => exec[d].stage \in {"none", "ensuring", "pasting"}]_vars

\* The image of request 1 could not be pasted, and the page has changed since.
C31_Witness ==
    /\ PreSendFailure(1)
    /\ rtQueue = <<ErrorMessage(1, "Failed to paste image")>>
    /\ domChanges > 0

C33_CreateOnlyWithoutTab ==
    [][\A d \in Ids :
          /\ (bg[d].stage = "query" /\ bg'[d].stage # "query")
                => IF tab.exists
                   THEN /\ bg'[d].stage = IF tab.listening THEN "delivered" ELSE "rejected"
                        /\ tab' = tab
                   ELSE bg'[d].stage = "creating" /\ inbox' = inbox
          /\ bg'[d].stage = "creating" => bg[d].stage \in {"query", "creating"}
          /\ (bg[d].stage # "loading" /\ bg'[d].stage = "loading")
                => bg[d].stage = "creating"]_vars

\* Prompt 1 has gone through the tab query and has been sent to the tab.
C33_Witness ==
    /\ bg[1].stage = "delivered"
    /\ bg[2].stage = "none"
    /\ tab = ReadyTab
    /\ console = {}

\* C34: prompts that arrive while no ChatGPT tab exists share one tab: a
\* tab is created only while there is none, so at most one is ever created.
C34_AtMostOneTabCreated ==
    [][\A d \in Ids :
          (bg[d].stage = "creating" /\ bg'[d].stage = "loading") => ~tab.exists]_vars

\* C35: at every moment the extension has either a socket that has not
\* closed and no reconnect timer, or a closed socket and exactly one pending
\* reconnect timer.
C35_OneSocketOrOneTimer ==
    \/ websocket \in {"CONNECTING", "OPEN"} /\ reconnectTimer = <<>>
    \/ websocket = "CLOSED" /\ Len(reconnectTimer) = 1

\* The socket of a reconnect has closed as well.
C35_Witness ==
    /\ websocket = "CLOSED"
    /\ Len(reconnectTimer) = 1
    /\ Len(attemptDelays) = MaxAttemptsSeen

\* C36: at most one keep-alive interval runs, it is the one keepAliveInterval
\* refers to, and it runs exactly while the current socket is open: none
\* survives a close or is left running by a reconnect.
C36_OneKeepAliveWhileOpen ==
    /\ intervals <= 1
    /\ intervals = 1 <=> keepAliveInterval # 0
    /\ intervals = 1 <=> websocket = "OPEN"

\* The interval has pinged, the socket has closed and so has the socket of
\* the reconnect: no interval runs.
C36_Witness ==
    /\ websocket = "CLOSED"
    /\ intervals = 0
    /\ Pings(wsSent) = 1
    /\ Len(attemptDelays) = MaxAttemptsSeen

\* C37: websocket.send is called only on an open socket: the steps that
\* send an error response of the background script (tab creation failed,
\* content script unreachable) are taken only while the socket is OPEN.
C37_SendOnlyWhenOpen ==
    [][\A d \in Ids :
          (tabsCreateDone(d, FALSE) \/ sendMessageCatch(d)) => websocket = "OPEN"]_vars

\* A message the background script sends of its own: a ping or one of its
\* error responses.
BackgroundOwn(m) ==
    \/ m = PingMessage
    \/ \E d \in Ids :
           m \in {errorResponse(d, <<"Failed to create ChatGPT tab.">>),
                  errorResponse(d, <<"Could not connect to the content script. The page may still be loading.">>)}

\* C38: a result the content script reports while the socket is not OPEN is
\* discarded: the listener takes it and sends nothing, keeps it nowhere and
\* changes nothing of the socket, the prompts or the tab; and a result is
\* sent only by the listener's own call for it, on an open socket, so a
\* discarded result is not sent after the reconnect.
C38_ResultDiscardedWhenNotOpen ==
    [][/\ (runtimeOnMessage /\ websocket # "OPEN")
            => /\ wsSent' = wsSent
               /\ rtQueue' = Tail(rtQueue)
               /\ UNCHANGED <<socketVars, bg, tab>>
       /\ wsSent' # wsSent
            => /\ Len(wsSent') = Len(wsSent) + 1
               /\ SubSeq(wsSent', 1, Len(wsSent)) = wsSent
               /\ \/ BackgroundOwn(wsSent'[Len(wsSent')])
                  \/ /\ runtimeOnMessage
                     /\ websocket = "OPEN"
                     /\ wsSent'[Len(wsSent')] = serverMessage(Head(rtQueue))]_vars

\* The detector of prompt 1 reported while the socket was not open; the
\* socket is open again and no result has been sent.
C38_Witness ==
    /\ "WebSocket is not connected. Cannot send message to server." \in console
    /\ websocket = "OPEN"
    /\ callbackLog[1] # <<>>
    /\ callbackLog[2] = <<>>
    /\ exec[2].stage # "failed"
    /\ rtQueue = <<>>
    /\ \A i \in 1..Len(wsSent) : wsSent[i].type # "response"

====
